---------------------------- MODULE Spec2Model ----------------------------
(***************************************************************************)
(* Jira dashboard: the aggregation core.                                   *)
(*                                                                         *)
(*   - fetchWithRetry, the retrying fetch helper copied into every API     *)
(*     route (deadline timer, exponential backoff, recursion);             *)
(*   - the API route handlers (projects, tasks, versions);                 *)
(*   - the dashboard page (three SWR groups joined in enrichedProjects);   *)
(*   - getVersionBasedHealth.                                              *)
(*                                                                         *)
(* Each part has its own variables and its own specification; the          *)
(* variables of the other parts stay at their idle values.                 *)
(***************************************************************************)
EXTENDS Integers, Sequences, FiniteSets, TLC

(***************************************************************************)
(* Program constants                                                       *)
(***************************************************************************)
\* fetchWithRetry(url, options, retries = 3, delay = 1000)
DefaultRetries == 3
DefaultDelay == 1000
\* setTimeout(() => controller.abort(), 15000)
FetchTimeoutMs == 15000

(***************************************************************************)
(* Bounds of the model                                                     *)
(***************************************************************************)
\* fetchWithRetry is explored for retries = 0 .. MaxRetries
MaxRetries == 3
\* the upstream settles a fetch within MaxLatencyTicks ticks of its start,
\* or at the deadline (racing the abort timer), or not at all
MaxLatencyTicks == 2
\* getVersionBasedHealth is explored for counts over at most MaxStatusKeys
\* status names and at most MaxTotal issues
MaxStatusKeys == 2
MaxTotal == 10
\* a search returns at most MaxIssues issues
MaxIssues == 3
\* the issue search of the versions route returns at most MaxStatsIssues issues
MaxStatsIssues == 2
\* the upstream lists at most MaxProjects projects
MaxProjects == 2
\* a project has at most MaxVersions versions in the latest-version resolution
MaxVersions == 3
\* the refresh timers of the page fire at most MaxRefreshes times
MaxRefreshes == 1
\* MaxInvocations requests are served at the same time
MaxInvocations == 2

\* the clock advances in steps of the greatest common divisor of every timer
\* duration of the program (delay * 2^i and the 15000 ms deadline)
TickMs == DefaultDelay

\* an optional value (undefined, or a missing property) is the empty sequence,
\* a present value v is <<v>>
Undefined == << >>
Some(v) == <<v>>

Last(s) == s[Len(s)]

Max(a, b) == IF a >= b THEN a ELSE b

VARIABLES
  \* ---- fetchWithRetry ----
  readsErrorBody, \* which copy of the helper runs: TRUE for the copies that
                  \* await response.json() on a non-2xx response
  argRetries,     \* `retries` of the outermost call
  argDelay,       \* `delay` of the outermost call
  retries,        \* `retries` of the innermost (current) invocation
  delay,          \* `delay` of the innermost (current) invocation
  fpc,            \* where the call is: "call", "fetching", "readingErrorBody",
                  \* "waiting", "returned", "thrown"
  attempts,       \* number of fetch() calls issued so far
  timers,         \* live abort timers: attempt number -> ms left
  backoff,        \* ms left of the backoff setTimeout, -1 when none is set
  response,       \* the Response the current attempt resolved with
  error,          \* the error caught by the current invocation
  result,         \* the Response returned to the caller
  raised,         \* the error thrown to the caller
  log,            \* fetch() calls and backoff waits, in order
  outcomes,       \* how each attempt ended, in order
  \* ---- getVersionBasedHealth ----
  hTaskCounts,    \* argument taskCounts: [total, counts]
  hLatestVersion, \* argument latestVersion: a JiraVersion or undefined
  health,         \* the ProjectHealth returned, NoHealth before the call
  \* ---- GET /api/projects/[projectKey]/tasks ----
  tConfigured,    \* JIRA_BASE_URL, JIRA_API_USER and JIRA_API_TOKEN are all set
  tProjectKey,    \* the path parameter projectKey
  tpc,            \* "start", "fetching", "done"
  tRequests,      \* the search requests handed to fetchWithRetry, in order
  tResponse,      \* the NextResponse returned, NoHttpResponse before
  \* ---- GET /api/projects/[projectKey]/versions ----
  vConfigured,    \* the three environment variables are set
  vProjectKey,    \* the path parameter projectKey
  vpc,            \* "start", "fetching", "done"
  vRequests,      \* the requests handed to fetchWithRetry, in order
  vList,          \* the fetchWithRetry call for the version list
  vSearch,        \* the fetchWithRetry call for the issue search
  vResponse,      \* the NextResponse returned, NoHttpResponse before
  \* ---- GET /api/projects ----
  pConfigured,    \* the three environment variables are set
  ppc,            \* "start", "list", "lead", "search", "done"
  pRequests,      \* the requests handed to fetchWithRetry, in order
  pValues,        \* `values` of the project search result
  pIndex,         \* position of the for loop in `values`
  pLeadName,      \* `leadName` of the current iteration
  pProjects,      \* `projects`, the records pushed so far
  pLeadCalls,     \* how the lead fetch of each project so far settled
  pSearchCalls,   \* how the issue search of each project so far settled
  pResponse,      \* the NextResponse returned, NoHttpResponse before
  \* ---- the dashboard page (Home) ----
  dProjects,      \* `projects`: Undefined, or Some(list) once /api/projects loaded
  dFlight,        \* per group: Undefined, or the promises of the running fetcher
  dData,          \* per group: `tasksArray` / `versionsArray` / `usersArray`
  dCalls,         \* per group and url of the last run: Undefined, or how fetcher(u) settled
  dCache,         \* the SWR cache: per group and key (url list), the data stored
  dStale,         \* per group and key that is no longer the key of the hook: the
                  \* calls of the fetcher that is still running for it
  dRefreshes,     \* how many refresh timers have fired
  dFlaky,         \* the API routes may answer with a failure
  \* ---- the latest-version resolution of enrichedProjects ----
  lVersions,      \* `versions`, the version list of one project
  lResolved,      \* latestVersion has been computed
  lLatest,        \* `latestVersion`
  \* ---- GET /api/projects/[projectKey]/issues/[issueKey] ----
  iConfigured,    \* the three environment variables are set
  iIssueKey,      \* params.issueKey, a sequence of characters
  ipc,            \* "start", "main", "children", "done", "threw"
  iRequests,      \* the requests handed to fetchWithRetry, in order
  iMain,          \* how the fetch of the main issue settled
  iData,          \* `data`, the JSON body of the main issue
  iResponse,      \* the NextResponse returned, NoHttpResponse before
  \* ---- GET /api/projects/[projectKey]/versions/[versionId] ----
  vdConfigured,   \* the three environment variables are set
  vdProjectKey,   \* params.projectKey
  vdVersionId,    \* params.versionId
  vdpc,           \* "start", "fetching", "done"
  vdRequests,     \* the requests handed to fetchWithRetry, in order
  vdDetails,      \* how fetchWithRetry(version).then(res => res.json()) settled
  vdIssues,       \* how fetchWithRetry(search).then(res => res.json()) settled
  vdResponse,     \* the NextResponse returned, NoHttpResponse before
  \* ---- GET /api/projects/[projectKey]/all-issues ----
  aiBaseUrl,      \* process.env.JIRA_BASE_URL is set (and not empty)
  aiApiUser,      \* process.env.JIRA_API_USER is set (and not empty)
  aiApiToken,     \* process.env.JIRA_API_TOKEN is set (and not empty)
  aiProjectKey,   \* params.projectKey
  aipc,           \* "start", "fetching", "done"
  aiRequests,     \* the requests handed to fetchWithRetry, in order
  aiResponse,     \* the NextResponse returned, NoHttpResponse before
  \* ---- the pass-through routes: users, and versions with expand=issueCounts ----
  ptRoute,        \* which handler runs: "users" or "versions"
  ptConfigured,   \* the three environment variables are set
  ptProjectKey,   \* params.projectKey
  ptpc,           \* "start", "fetching", "done"
  ptRequests,     \* the requests handed to fetchWithRetry, in order
  ptResponse,     \* the NextResponse returned, NoHttpResponse before
  \* ---- concurrent invocations of the aggregation handlers ----
  cRoute,         \* per invocation: "tasks", "versions" or "projects"
  cKeys,          \* per invocation: the project key of the request (tasks, versions), or the keys of the project list the upstream answers with (projects)
  cpc,            \* per invocation: "start", "fetching", "list", "lead", "search", "done"
  cIndex,         \* per invocation: position of the for loop of the projects route
  cLeadName,      \* per invocation: `leadName` of the current iteration
  cObjects,       \* the objects the invocations created: `counts`, `versionStatsMap`, `projects`
  cResponse,      \* per invocation: the NextResponse returned, NoHttpResponse before
  \* ---- one project from the upstream to its dashboard card ----
  sIssues,        \* the issues of the project at the upstream
  sVersions,      \* the versions of the project at the upstream
  sChanged,       \* an issue was created at the upstream since the start
  sTasksSaw,      \* the issues the search of the tasks route returned, undefined before
  sVersionsSaw,   \* the issues the search of the versions route returned, undefined before
  sTaskData,      \* the page's tasks data of the project, undefined before it arrives
  sVersionData,   \* the page's versions data of the project, undefined before it arrives
  sRender,        \* the last rendering of the card: what had arrived, and `health`
  \* ---- progress statistics of the two detail pages ----
  stPage,         \* "project" (project detail page) or "version" (version detail page)
  stIssues,       \* `tasks.issues` / `data.issues`: the issue list the page received
  stpc,           \* "render", "rendered", or "threw" (the render threw a TypeError)
  stStats         \* `stats`, NoStats before it is computed

fetchVars == <<readsErrorBody, argRetries, argDelay, retries, delay, fpc,
               attempts, timers, backoff, response, error, result, raised,
               log, outcomes>>

healthVars == <<hTaskCounts, hLatestVersion, health>>

tasksVars == <<tConfigured, tProjectKey, tpc, tRequests, tResponse>>

versionsVars == <<vConfigured, vProjectKey, vpc, vRequests, vList, vSearch, vResponse>>

projectsVars == <<pConfigured, ppc, pRequests, pValues, pIndex, pLeadName, pProjects,
                  pLeadCalls, pSearchCalls, pResponse>>

dashboardVars == <<dProjects, dFlight, dData, dCalls, dCache, dStale, dRefreshes, dFlaky>>

latestVars == <<lVersions, lResolved, lLatest>>

issueVars == <<iConfigured, iIssueKey, ipc, iRequests, iMain, iData, iResponse>>

detailVars == <<vdConfigured, vdProjectKey, vdVersionId, vdpc, vdRequests, vdDetails, vdIssues, vdResponse>>

allIssuesVars == <<aiBaseUrl, aiApiUser, aiApiToken, aiProjectKey, aipc, aiRequests, aiResponse>>

passThroughVars == <<ptRoute, ptConfigured, ptProjectKey, ptpc, ptRequests, ptResponse>>

concurrentVars == <<cRoute, cKeys, cpc, cIndex, cLeadName, cObjects, cResponse>>

snapshotVars == <<sIssues, sVersions, sChanged, sTasksSaw, sVersionsSaw, sTaskData, sVersionData, sRender>>

statsVars == <<stPage, stIssues, stpc, stStats>>

vars == <<fetchVars, healthVars, tasksVars, versionsVars, projectsVars, dashboardVars, latestVars, issueVars, detailVars, allIssuesVars, passThroughVars, concurrentVars, snapshotVars, statsVars>>

\* what each part leaves alone
notFetchVars == <<healthVars, tasksVars, versionsVars, projectsVars, dashboardVars, latestVars, issueVars, detailVars, allIssuesVars, passThroughVars, concurrentVars, snapshotVars, statsVars>>
notHealthVars == <<fetchVars, tasksVars, versionsVars, projectsVars, dashboardVars, latestVars, issueVars, detailVars, allIssuesVars, passThroughVars, concurrentVars, snapshotVars, statsVars>>
notTasksVars == <<fetchVars, healthVars, versionsVars, projectsVars, dashboardVars, latestVars, issueVars, detailVars, allIssuesVars, passThroughVars, concurrentVars, snapshotVars, statsVars>>
notVersionsVars == <<fetchVars, healthVars, tasksVars, projectsVars, dashboardVars, latestVars, issueVars, detailVars, allIssuesVars, passThroughVars, concurrentVars, snapshotVars, statsVars>>
notProjectsVars == <<fetchVars, healthVars, tasksVars, versionsVars, dashboardVars, latestVars, issueVars, detailVars, allIssuesVars, passThroughVars, concurrentVars, snapshotVars, statsVars>>
notLatestVars == <<fetchVars, healthVars, tasksVars, versionsVars, projectsVars, dashboardVars, issueVars, detailVars, allIssuesVars, passThroughVars, concurrentVars, snapshotVars, statsVars>>
notDashboardVars == <<fetchVars, healthVars, tasksVars, versionsVars, projectsVars, latestVars, issueVars, detailVars, allIssuesVars, passThroughVars, concurrentVars, snapshotVars, statsVars>>
notDetailVars == <<fetchVars, healthVars, tasksVars, versionsVars, projectsVars, latestVars, dashboardVars, issueVars, allIssuesVars, passThroughVars, concurrentVars, snapshotVars, statsVars>>
notIssueVars == <<fetchVars, healthVars, tasksVars, versionsVars, projectsVars, latestVars, dashboardVars, detailVars, allIssuesVars, passThroughVars, concurrentVars, snapshotVars, statsVars>>
notPassThroughVars == <<fetchVars, healthVars, tasksVars, versionsVars, projectsVars, latestVars, dashboardVars, detailVars, issueVars, allIssuesVars, concurrentVars, snapshotVars, statsVars>>
notAllIssuesVars == <<fetchVars, healthVars, tasksVars, versionsVars, projectsVars, latestVars, dashboardVars, detailVars, issueVars, passThroughVars, concurrentVars, snapshotVars, statsVars>>
notSnapshotVars == <<fetchVars, healthVars, tasksVars, versionsVars, projectsVars, latestVars, dashboardVars, detailVars, issueVars, passThroughVars, allIssuesVars, concurrentVars, statsVars>>
notConcurrentVars == <<fetchVars, healthVars, tasksVars, versionsVars, projectsVars, latestVars, dashboardVars, detailVars, issueVars, passThroughVars, allIssuesVars, snapshotVars, statsVars>>
notStatsVars == <<fetchVars, healthVars, tasksVars, versionsVars, projectsVars, latestVars, dashboardVars, detailVars, issueVars, passThroughVars, allIssuesVars, snapshotVars, concurrentVars>>

(***************************************************************************)
(* Idle values: the state of a part that a specification does not explore  *)
(***************************************************************************)
NoResponse == [attempt |-> 0, status |-> 0]
NoError == [attempt |-> 0, kind |-> "none", status |-> 0]

NoTaskCounts == [total |-> 0, counts |-> << >>]
NoHealth == [status |-> "none", progress |-> 0, totalProjectIssues |-> 0,
             blocked |-> 0, versionFixed |-> 0, versionTotal |-> 0]

\* no fetchWithRetry call is being explored
IdleFetch ==
  /\ readsErrorBody = FALSE
  /\ argRetries = 0
  /\ argDelay = 0
  /\ retries = 0
  /\ delay = 0
  /\ fpc = "idle"
  /\ attempts = 0
  /\ timers = << >>
  /\ backoff = -1
  /\ response = NoResponse
  /\ error = NoError
  /\ result = NoResponse
  /\ raised = NoError
  /\ log = << >>
  /\ outcomes = << >>

\* getVersionBasedHealth is not being explored
IdleHealth ==
  /\ hTaskCounts = NoTaskCounts
  /\ hLatestVersion = Undefined
  /\ health = NoHealth

NoHttpResponse == [status |-> 0]

\* no request to the tasks route is being explored
IdleTasks ==
  /\ tConfigured = FALSE
  /\ tProjectKey = ""
  /\ tpc = "idle"
  /\ tRequests = << >>
  /\ tResponse = NoHttpResponse

NoFetch == [settled |-> "none", message |-> "", json |-> FALSE, data |-> Undefined]

\* no request to the versions route is being explored
IdleVersions ==
  /\ vConfigured = FALSE
  /\ vProjectKey = ""
  /\ vpc = "idle"
  /\ vRequests = << >>
  /\ vList = NoFetch
  /\ vSearch = NoFetch
  /\ vResponse = NoHttpResponse

\* no request to the projects route is being explored
IdleProjects ==
  /\ pConfigured = FALSE
  /\ ppc = "idle"
  /\ pRequests = << >>
  /\ pValues = << >>
  /\ pIndex = 0
  /\ pLeadName = Undefined
  /\ pProjects = << >>
  /\ pLeadCalls = << >>
  /\ pSearchCalls = << >>
  /\ pResponse = NoHttpResponse

\* the three SWR groups of the dashboard page
DashGroups == {"tasks", "versions", "users"}

\* the project lists /api/projects answers with
DashProjectLists == { << >>, <<"A">>, <<"A", "B">>, <<"B", "A">> }

\* the keys of a group hook: the url list of a non-empty project list (the
\* key is null, and nothing is fetched, for an empty list)
DashKeys == DashProjectLists \ { << >> }

\* nothing is stored, nothing runs
EmptyCache == [g \in DashGroups |-> [k \in DashKeys |-> Undefined]]

\* the dashboard page is not being explored
IdleDashboard ==
  /\ dProjects = Undefined
  /\ dFlight = [g \in DashGroups |-> Undefined]
  /\ dData = [g \in DashGroups |-> Undefined]
  /\ dCalls = [g \in DashGroups |-> << >>]
  /\ dCache = EmptyCache
  /\ dStale = EmptyCache
  /\ dRefreshes = 0
  /\ dFlaky = FALSE

\* the latest-version resolution is not being explored
IdleLatest ==
  /\ lVersions = << >>
  /\ lResolved = FALSE
  /\ lLatest = Undefined

\* no request to the issue route is being explored
IdleIssue ==
  /\ iConfigured = FALSE
  /\ iIssueKey = << >>
  /\ ipc = "idle"
  /\ iRequests = << >>
  /\ iMain = NoFetch
  /\ iData = Undefined
  /\ iResponse = NoHttpResponse

\* no request to the version detail route is being explored
IdleDetail ==
  /\ vdConfigured = FALSE
  /\ vdProjectKey = ""
  /\ vdVersionId = ""
  /\ vdpc = "idle"
  /\ vdRequests = << >>
  /\ vdDetails = NoFetch
  /\ vdIssues = NoFetch
  /\ vdResponse = NoHttpResponse

\* no request to the all-issues route is being explored
IdleAllIssues ==
  /\ aiBaseUrl = FALSE
  /\ aiApiUser = FALSE
  /\ aiApiToken = FALSE
  /\ aiProjectKey = ""
  /\ aipc = "idle"
  /\ aiRequests = << >>
  /\ aiResponse = NoHttpResponse

\* no request to a pass-through route is being explored
IdlePassThrough ==
  /\ ptRoute = ""
  /\ ptConfigured = FALSE
  /\ ptProjectKey = ""
  /\ ptpc = "idle"
  /\ ptRequests = << >>
  /\ ptResponse = NoHttpResponse

\* no concurrent invocations are being explored
IdleConcurrent ==
  /\ cRoute = << >>
  /\ cKeys = << >>
  /\ cpc = << >>
  /\ cIndex = << >>
  /\ cLeadName = << >>
  /\ cObjects = << >>
  /\ cResponse = << >>

\* no project is being followed from the upstream to its card
IdleSnapshot ==
  /\ sIssues = << >>
  /\ sVersions = << >>
  /\ sChanged = TRUE
  /\ sTasksSaw = Some(<< >>)
  /\ sVersionsSaw = Some(<< >>)
  /\ sTaskData = Undefined
  /\ sVersionData = Undefined
  /\ sRender = Undefined

\* `stats` of a detail page before its render
NoStats == [total |-> -1, todo |-> -1, inProgress |-> -1, blocked |-> -1, done |-> -1,
            progress |-> -1]

\* no detail page is rendering
IdleStats ==
  /\ stPage = "project"
  /\ stIssues = << >>
  /\ stpc = "idle"
  /\ stStats = NoStats

\* every part but one is idle
IdleExcept(part) ==
  /\ part = "fetch" \/ IdleFetch
  /\ part = "health" \/ IdleHealth
  /\ part = "tasks" \/ IdleTasks
  /\ part = "versions" \/ IdleVersions
  /\ part = "projects" \/ IdleProjects
  /\ part = "dashboard" \/ IdleDashboard
  /\ part = "latest" \/ IdleLatest
  /\ part = "issue" \/ IdleIssue
  /\ part = "detail" \/ IdleDetail
  /\ part = "allIssues" \/ IdleAllIssues
  /\ part = "passThrough" \/ IdlePassThrough
  /\ part = "concurrent" \/ IdleConcurrent
  /\ part = "snapshot" \/ IdleSnapshot
  /\ part = "stats" \/ IdleStats

(***************************************************************************)
(* fetchWithRetry                                                          *)
(***************************************************************************)
\* the statuses the upstream answers with
Statuses == {200, 204, 404, 500}

Delays == {DefaultDelay, 2 * DefaultDelay}

\* response.ok taken to mean "not a server error"
ResponseOkBelow500(status) == status >= 200 /\ status < 500

\* response.ok
ResponseOk(status) == status >= 200 /\ status <= 299

\* new Error(`Jira API Error: ${response.status} ${response.statusText}`)
HttpError(n, status) == [attempt |-> n, kind |-> "http", status |-> status]
\* fetch() rejecting with a TypeError (network failure)
NetworkError(n) == [attempt |-> n, kind |-> "network", status |-> 0]
\* fetch() rejecting with an AbortError after controller.abort()
AbortError(n) == [attempt |-> n, kind |-> "abort", status |-> 0]

\* the retry test off by one: the last retry is never taken
ShouldRetryAboveOne(r) == r > 1

\* if (retries > 0)
ShouldRetry(r) == r > 0

\* fetchWithRetry(url, options, retries - 1, delay * 2)
NextRetries(r) == r - 1
\* linear instead of exponential backoff
NextDelayLinear(d) == d + DefaultDelay

NextDelay(d) == d * 2

\* one AbortController for all the attempts of a call
AbortsAnyFetch(n, current) == TRUE

\* controller.abort() of the timer of attempt n reaches the fetch of attempt
\* n only: every attempt has its own AbortController
AbortsFetch(n, current) == n = current

AttemptEvent(n) == [ev |-> "attempt", arg |-> n]
WaitEvent(ms) == [ev |-> "wait", arg |-> ms]

\* ms since the current attempt started (its abort timer is live while the
\* fetch is pending)
Age == FetchTimeoutMs - timers[attempts]

\* the moments at which the upstream may settle a pending fetch
LatencyAllowed == Age <= MaxLatencyTicks * TickMs \/ Age >= FetchTimeoutMs

WithoutTimer(n) == [k \in DOMAIN timers \ {n} |-> timers[k]]

\* try { controller; setTimeout(abort, 15000); await fetch(...) }
StartAttempt(r, d) ==
  /\ retries' = r
  /\ delay' = d
  /\ attempts' = attempts + 1
  /\ timers' = [k \in DOMAIN timers \cup {attempts + 1} |->
                  IF k = attempts + 1 THEN FetchTimeoutMs ELSE timers[k]]
  /\ log' = Append(log, AttemptEvent(attempts + 1))
  /\ fpc' = "fetching"
  /\ backoff' = -1
  /\ response' = NoResponse
  /\ error' = NoError

\* catch (error) { if (retries > 0) { await setTimeout(delay) ... } else throw error }
Catch(e) ==
  /\ error' = e
  /\ outcomes' = Append(outcomes, e)
  /\ IF ShouldRetry(retries)
       THEN /\ fpc' = "waiting"
            /\ backoff' = delay
            /\ log' = Append(log, WaitEvent(delay))
            /\ raised' = raised
       ELSE /\ fpc' = "thrown"
            /\ raised' = e
            /\ UNCHANGED <<backoff, log>>

\* the outermost call runs synchronously up to its first await
Call ==
  /\ UNCHANGED notFetchVars
  /\ fpc = "call"
  /\ StartAttempt(argRetries, argDelay)
  /\ UNCHANGED <<readsErrorBody, argRetries, argDelay, result, raised, outcomes>>

\* await fetch(...) resolves with a Response; clearTimeout(timeoutId)
FetchResolves ==
  /\ UNCHANGED notFetchVars
  /\ fpc = "fetching"
  /\ LatencyAllowed
  /\ \E status \in Statuses :
       /\ timers' = WithoutTimer(attempts)
       /\ response' = [attempt |-> attempts, status |-> status]
       /\ IF ResponseOk(status)
            THEN /\ fpc' = "returned"
                 /\ result' = [attempt |-> attempts, status |-> status]
                 /\ outcomes' = Append(outcomes, [attempt |-> attempts, kind |-> "ok", status |-> status])
                 /\ UNCHANGED <<error, raised, backoff, log>>
            ELSE IF readsErrorBody
              THEN /\ fpc' = "readingErrorBody"
                   /\ UNCHANGED <<error, raised, backoff, log, outcomes, result>>
              ELSE /\ Catch(HttpError(attempts, status))
                   /\ UNCHANGED result
  /\ UNCHANGED <<readsErrorBody, argRetries, argDelay, retries, delay, attempts>>

\* const errorData = await response.json().catch(() => ({})); throw new Error(...)
\* the body arrives (or fails to parse): either way the Error is thrown
ErrorBodyRead ==
  /\ UNCHANGED notFetchVars
  /\ fpc = "readingErrorBody"
  /\ Catch(HttpError(attempts, response.status))
  /\ UNCHANGED <<readsErrorBody, argRetries, argDelay, retries, delay, attempts,
                 timers, response, result>>

\* await fetch(...) rejects (connection reset, DNS, ...): the timer is not cleared
FetchRejects ==
  /\ UNCHANGED notFetchVars
  /\ fpc = "fetching"
  /\ LatencyAllowed
  /\ Catch(NetworkError(attempts))
  /\ UNCHANGED <<readsErrorBody, argRetries, argDelay, retries, delay, attempts,
                 timers, response, result>>

\* the abort timer of attempt n fires: controller.abort()
DeadlineFires ==
  \E n \in DOMAIN timers :
    /\ UNCHANGED notFetchVars
    /\ timers[n] = 0
    /\ timers' = WithoutTimer(n)
    /\ IF fpc = "fetching" /\ AbortsFetch(n, attempts)
         THEN Catch(AbortError(attempts))
         ELSE UNCHANGED <<error, outcomes, fpc, backoff, log, raised>>
    /\ UNCHANGED <<readsErrorBody, argRetries, argDelay, retries, delay, attempts,
                   response, result>>

\* the backoff setTimeout fires: return fetchWithRetry(url, options, retries - 1, delay * 2)
BackoffElapses ==
  /\ UNCHANGED notFetchVars
  /\ fpc = "waiting"
  /\ backoff = 0
  /\ StartAttempt(NextRetries(retries), NextDelay(delay))
  /\ UNCHANGED <<readsErrorBody, argRetries, argDelay, result, raised, outcomes>>

\* time passes while a timer is still running
Tick ==
  /\ UNCHANGED notFetchVars
  /\ \/ \E n \in DOMAIN timers : timers[n] > 0
     \/ backoff > 0
  /\ timers' = [n \in DOMAIN timers |-> Max(timers[n] - TickMs, 0)]
  /\ backoff' = IF backoff > 0 THEN Max(backoff - TickMs, 0) ELSE backoff
  /\ UNCHANGED <<readsErrorBody, argRetries, argDelay, retries, delay, fpc,
                 attempts, response, error, result, raised, log, outcomes>>

InitFetch ==
  /\ IdleExcept("fetch")
  /\ readsErrorBody \in BOOLEAN
  /\ argRetries \in 0..MaxRetries
  /\ argDelay \in Delays
  /\ retries = argRetries
  /\ delay = argDelay
  /\ fpc = "call"
  /\ attempts = 0
  /\ timers = << >>
  /\ backoff = -1
  /\ response = NoResponse
  /\ error = NoError
  /\ result = NoResponse
  /\ raised = NoError
  /\ log = << >>
  /\ outcomes = << >>

NextFetch ==
  \/ Call
  \/ FetchResolves
  \/ ErrorBodyRead
  \/ FetchRejects
  \/ DeadlineFires
  \/ BackoffElapses
  \/ Tick

SpecFetch == InitFetch /\ [][NextFetch]_vars

\* the event loop runs every due timer and the clock does not stop; nothing is
\* assumed of the upstream
SpecFetchFair ==
  /\ SpecFetch
  /\ WF_vars(Call)
  /\ WF_vars(Tick)
  /\ WF_vars(DeadlineFires)
  /\ WF_vars(BackoffElapses)

(***************************************************************************)
(* getVersionBasedHealth (the health calculator of the dashboard page)     *)
(***************************************************************************)
\* the status names the inputs use: the six the code looks up, two other
\* capitalisations and one unrelated status
StatusKeys == {"Blocked", "blocked", "BLOCKED", "Done", "done", "DONE",
               "Fixed", "fixed", "To Do"}

\* obj.k of a JSON object: the value, or undefined when the property is missing
Prop(obj, k) == IF k \in DOMAIN obj THEN Some(obj[k]) ELSE Undefined

\* a ?? b
Coalesce(a, b) == IF a = Undefined THEN b ELSE a

\* Math.round((fixed / total) * 100) for total > 0: the nearest integer, halves
\* up. The quotient is exact here: a half occurs only when 8 divides total, and
\* then fixed / total is a binary fraction.
RoundPercent(fixed, total) == (200 * fixed + total) \div (2 * total)

\* the boundary progress = 40 / progress = 70 put on the wrong side
HealthStatusInclusive(progress, blocked) ==
  IF progress <= 40 \/ blocked >= 5 THEN "Critical"
  ELSE IF progress <= 70 \/ blocked >= 2 THEN "At Risk"
  ELSE "Healthy"

\* let status = 'Healthy'; if (...) status = 'Critical'; else if (...) status = 'At Risk'
HealthStatus(progress, blocked) ==
  IF progress < 40 \/ blocked >= 5 THEN "Critical"
  ELSE IF progress < 70 \/ blocked >= 2 THEN "At Risk"
  ELSE "Healthy"

\* a missing count of the latest version read as one issue instead of none
VersionTotalOrOne(latestVersion) ==
  LET issueCounts == IF latestVersion = Undefined THEN Undefined
                     ELSE latestVersion[1].issueCounts
      fixedCount == IF issueCounts = Undefined THEN Undefined
                    ELSE issueCounts[1].issuesFixedCount
  IN  Coalesce(fixedCount, Some(1))[1]

\* latestVersion?.issueCounts?.issuesFixedCount ?? 0
VersionTotal(latestVersion) ==
  LET issueCounts == IF latestVersion = Undefined THEN Undefined
                     ELSE latestVersion[1].issueCounts
      fixedCount == IF issueCounts = Undefined THEN Undefined
                    ELSE issueCounts[1].issuesFixedCount
  IN  Coalesce(fixedCount, Some(0))[1]

getVersionBasedHealth(taskCounts, latestVersion) ==
  LET totalProjectIssues == taskCounts.total
      counts == taskCounts.counts
      blocked == Coalesce(Coalesce(Prop(counts, "Blocked"), Prop(counts, "blocked")), Some(0))[1]
      versionTotal == VersionTotal(latestVersion)
      versionFixed ==
        Coalesce(Coalesce(Prop(counts, "Done"), Prop(counts, "done")), Some(0))[1]
        + Coalesce(Coalesce(Prop(counts, "Fixed"), Prop(counts, "fixed")), Some(0))[1]
      progress == IF versionTotal > 0 THEN RoundPercent(versionFixed, versionTotal) ELSE 0
  IN  [status |-> HealthStatus(progress, blocked),
       progress |-> progress,
       totalProjectIssues |-> totalProjectIssues,
       blocked |-> blocked,
       versionFixed |-> versionFixed,
       versionTotal |-> versionTotal]

RECURSIVE SumOver(_, _)
SumOver(f, keys) ==
  IF keys = {} THEN 0
  ELSE LET k == CHOOSE x \in keys : TRUE IN f[k] + SumOver(f, keys \ {k})

\* the counts mappings explored: at most MaxStatusKeys statuses, non-negative
\* counts, at most MaxTotal issues in all
CountsInputs ==
  UNION { { c \in [ks -> 0..MaxTotal] : SumOver(c, ks) <= MaxTotal } :
          ks \in { d \in SUBSET StatusKeys : Cardinality(d) <= MaxStatusKeys } }

TaskCountsInputs == { [total |-> SumOver(c, DOMAIN c), counts |-> c] : c \in CountsInputs }

\* issueCounts of a version: missing, or with issuesFixedCount missing or a number
IssueCountsInputs ==
  {Undefined}
  \cup { Some([issuesFixedCount |-> f, totalIssues |-> Undefined]) :
           f \in {Undefined} \cup { Some(n) : n \in 0..MaxTotal } }

\* latestVersion: undefined, or a version
LatestVersionInputs ==
  {Undefined}
  \cup { Some([id |-> "1", name |-> "v1", status |-> "Unreleased",
               startDate |-> Undefined, releaseDate |-> Undefined,
               issueCounts |-> ic]) : ic \in IssueCountsInputs }

\* const health = getVersionBasedHealth(taskData, latestVersion)
ComputeHealth ==
  /\ health = NoHealth
  /\ health' = getVersionBasedHealth(hTaskCounts, hLatestVersion)
  /\ UNCHANGED <<hTaskCounts, hLatestVersion>>
  /\ UNCHANGED notHealthVars

InitHealth ==
  /\ IdleExcept("health")
  /\ hTaskCounts \in TaskCountsInputs
  /\ hLatestVersion \in LatestVersionInputs
  /\ health = NoHealth

NextHealth == ComputeHealth

SpecHealth == InitHealth /\ [][NextHealth]_vars

(***************************************************************************)
(* Grouping issues by status name (tasks route and projects route)         *)
(***************************************************************************)
\* JavaScript values held by the properties of `counts`
JsNumber(n) == [type |-> "number", num |-> n, str |-> ""]
JsString(x) == [type |-> "string", num |-> 0, str |-> x]
JsFunction(x) == [type |-> "function", num |-> 0, str |-> x]
JsObject == [type |-> "object", num |-> 0, str |-> "[object Object]"]
JsUndefined == [type |-> "undefined", num |-> 0, str |-> ""]

\* `const counts: Record<string, number> = {}` is an ordinary object: beside
\* its own properties it has the properties of Object.prototype
ObjectPrototype ==
  [k \in {"constructor", "toString", "__proto__"} |->
     CASE k = "constructor" -> JsFunction("function Object() { [native code] }")
       [] k = "toString" -> JsFunction("function toString() { [native code] }")
       [] k = "__proto__" -> JsObject]

\* counts[status]: an own property, else an inherited one, else undefined
GetProperty(counts, status) ==
  IF status \in DOMAIN counts THEN counts[status]
  ELSE IF status \in DOMAIN ObjectPrototype THEN ObjectPrototype[status]
  ELSE JsUndefined

\* x || 0
OrZero(x) ==
  IF \/ x.type = "undefined"
     \/ x.type = "number" /\ x.num = 0
     \/ x.type = "string" /\ x.str = ""
    THEN JsNumber(0)
    ELSE x

\* x + 1: a sum of numbers, else the concatenation of the string forms
PlusOne(x) ==
  IF x.type = "number" THEN JsNumber(x.num + 1) ELSE JsString(x.str \o "1")

\* counts[status] = v: sets an own property, except that "__proto__" is the
\* accessor of Object.prototype, whose setter ignores a value that is no object
SetProperty(counts, status, v) ==
  IF status = "__proto__" THEN counts
  ELSE [k \in DOMAIN counts \cup {status} |-> IF k = status THEN v ELSE counts[k]]

\* x || 'Unknown' for a string or undefined
OrUnknown(name) == IF name = Undefined \/ name = Some("") THEN "Unknown" ELSE name[1]

\* issue.fields?.status?.name
StatusNameOf(issue) ==
  IF issue.fields = Undefined THEN Undefined
  ELSE IF issue.fields[1].status = Undefined THEN Undefined
  ELSE issue.fields[1].status[1].name

\* for (const issue of issues) { const status = issue.fields?.status?.name || 'Unknown';
\*                               counts[status] = (counts[status] || 0) + 1; }
RECURSIVE CountByStatus(_, _)
CountByStatus(issues, counts) ==
  IF issues = << >> THEN counts
  ELSE LET status == OrUnknown(StatusNameOf(Head(issues)))
       IN  CountByStatus(Tail(issues),
                         SetProperty(counts, status, PlusOne(OrZero(GetProperty(counts, status)))))

\* { total: issues.length, counts }
TaskCountsOf(issues) == [total |-> Len(issues), counts |-> CountByStatus(issues, << >>)]

IssueWithStatusName(name) ==
  [fields |-> Some([status |-> Some([name |-> name])])]

\* the status names the upstream uses; status names are free text chosen by
\* the administrators of the tracker
UpstreamStatusNames == {"To Do", "Done", "Unknown", "constructor", "__proto__"}

\* the issues of a search result: no fields, no status, no name, an empty name,
\* or a name
IssueInputs ==
  { [fields |-> Undefined],
    [fields |-> Some([status |-> Undefined])],
    IssueWithStatusName(Undefined),
    IssueWithStatusName(Some("")) }
  \cup { IssueWithStatusName(Some(n)) : n \in UpstreamStatusNames }

IssueLists == UNION { [1..n -> IssueInputs] : n \in 0..MaxIssues }

(***************************************************************************)
(* GET /api/projects/[projectKey]/tasks                                    *)
(***************************************************************************)
ProjectKeyInputs == {"CB", "C B", "C\"B"}

\* what a fetchWithRetry call ends with: a thrown error, or a 2xx response whose
\* body is JSON (with or without an `issues` array) or is not JSON
ErrorMessages == {"Jira API Error: 404 Not Found", "Jira API Error: 500 Internal Server Error",
                  "fetch failed", "This operation was aborted"}

\* `data` is the array the handler reads from the JSON body (data.issues, or the
\* body itself for a list endpoint), undefined when the body does not hold it
FetchPending == [settled |-> "pending", message |-> "", json |-> FALSE, data |-> Undefined]
FetchThrew(message) == [settled |-> "threw", message |-> message, json |-> FALSE, data |-> Undefined]
FetchReturned(json, data) == [settled |-> "returned", message |-> "", json |-> json, data |-> data]

SearchOutcomes ==
  { FetchThrew(m) : m \in ErrorMessages }
  \cup { FetchReturned(FALSE, Undefined), FetchReturned(TRUE, Undefined) }
  \cup { FetchReturned(TRUE, Some(l)) : l \in IssueLists }

\* the message of the SyntaxError response.json() rejects with
JsonSyntaxError == "Unexpected token < in JSON"

\* data.issues || []
IssuesOrEmpty(issues) == IF issues = Undefined THEN << >> ELSE issues[1]

\* NextResponse.json({ error: 'Internal server error', details: err.message }, { status: 500 })
InternalServerError(message) ==
  [status |-> 500, error |-> "Internal server error", details |-> message]

\* const body = { jql: `project="${projectKey}"`, fields: ['status', 'summary'], maxResults: 1000 }
TasksSearchRequest(projectKey) ==
  [url |-> "/rest/api/3/search/jql", method |-> "POST",
   jql |-> "project=\"" \o projectKey \o "\"",
   fields |-> <<"status", "summary">>, maxResults |-> Some(1000)]

\* NextResponse.json({ total: calculatedTotal, counts, issues })
TasksOk(issues) ==
  [status |-> 200, total |-> TaskCountsOf(issues).total,
   counts |-> TaskCountsOf(issues).counts, issues |-> issues]

\* the handler up to `await fetchWithRetry(...)`
TasksStart ==
  /\ tpc = "start"
  /\ IF tConfigured
       THEN /\ tRequests' = Append(tRequests, TasksSearchRequest(tProjectKey))
            /\ tpc' = "fetching"
            /\ tResponse' = tResponse
       ELSE /\ tResponse' = InternalServerError("Missing Jira environment variables")
            /\ tpc' = "done"
            /\ tRequests' = tRequests
  /\ UNCHANGED <<tConfigured, tProjectKey>>
  /\ UNCHANGED notTasksVars

\* fetchWithRetry settles; response.json(); grouping; the response
TasksSettle ==
  /\ tpc = "fetching"
  /\ \E o \in SearchOutcomes :
       tResponse' =
         IF o.settled = "threw" THEN InternalServerError(o.message)
         ELSE IF ~o.json THEN InternalServerError(JsonSyntaxError)
         ELSE TasksOk(IssuesOrEmpty(o.data))
  /\ tpc' = "done"
  /\ UNCHANGED <<tConfigured, tProjectKey, tRequests>>
  /\ UNCHANGED notTasksVars

InitTasks ==
  /\ IdleExcept("tasks")
  /\ tConfigured \in BOOLEAN
  /\ tProjectKey \in ProjectKeyInputs
  /\ tpc = "start"
  /\ tRequests = << >>
  /\ tResponse = NoHttpResponse

NextTasks ==
  \/ TasksStart
  \/ TasksSettle

SpecTasks == InitTasks /\ [][NextTasks]_vars

(***************************************************************************)
(* GET /api/projects/[projectKey]/versions                                 *)
(***************************************************************************)
\* a version as the upstream lists it
RawVersion(id, name, archived, released, startDate, releaseDate) ==
  [id |-> id, name |-> name, archived |-> archived, released |-> released,
   startDate |-> startDate, releaseDate |-> releaseDate, issueCounts |-> Undefined]

VersionListInputs ==
  { << >>,
    << RawVersion("1", "v1", FALSE, TRUE, Undefined, Undefined) >>,
    << RawVersion("1", "v1", FALSE, FALSE, Undefined, Undefined),
       RawVersion("2", "v2", TRUE, FALSE, Undefined, Undefined) >> }

\* an issue of the search with fields ['status', 'fixVersions']
StatsIssue(status, fixVersions) ==
  [fields |-> Some([status |-> status, fixVersions |-> fixVersions])]

StatsStatusInputs ==
  { Undefined, Some([name |-> Undefined]) }
  \cup { Some([name |-> Some(n)]) : n \in {"Done", "FIXED", "To Do"} }

FixVersionsInputs ==
  { Undefined, Some(<< >>), Some(<< [id |-> "1"] >>), Some(<< [id |-> "1"], [id |-> "2"] >>) }

StatsIssueInputs ==
  { [fields |-> Undefined] }
  \cup { StatsIssue(st, fv) : st \in StatsStatusInputs, fv \in FixVersionsInputs }

StatsIssueLists == UNION { [1..n -> StatsIssueInputs] : n \in 0..MaxStatsIssues }

ListOutcomes ==
  { FetchThrew(m) : m \in ErrorMessages }
  \cup { FetchReturned(FALSE, Undefined) }
  \cup { FetchReturned(TRUE, Some(l)) : l \in VersionListInputs }

StatsOutcomes ==
  { FetchThrew(m) : m \in ErrorMessages }
  \cup { FetchReturned(FALSE, Undefined), FetchReturned(TRUE, Undefined) }
  \cup { FetchReturned(TRUE, Some(l)) : l \in StatsIssueLists }

\* String.prototype.toLowerCase on the status names of the inputs
ToLowerCase(name) ==
  CASE name = "Done" -> "done"
    [] name = "FIXED" -> "fixed"
    [] name = "Fixed" -> "fixed"
    [] name = "To Do" -> "to do"
    [] name = "In Progress" -> "in progress"
    [] name = "In Review" -> "in review"
    [] name = "Blocked" -> "blocked"
    [] OTHER -> name

\* issue.fields.status?.name.toLowerCase() throws a TypeError when fields is
\* missing, or when status is present and has no name
StatusLookupThrows(issue) ==
  \/ issue.fields = Undefined
  \/ /\ issue.fields[1].status # Undefined
     /\ issue.fields[1].status[1].name = Undefined

\* issue.fields.status?.name.toLowerCase() || 'unknown'
LowerStatusOf(issue) ==
  IF issue.fields[1].status = Undefined THEN "unknown"
  ELSE IF issue.fields[1].status[1].name = Some("") THEN "unknown"
  ELSE ToLowerCase(issue.fields[1].status[1].name[1])

\* the test with 'fixed' left out
IsDoneStatusOnly(status) == status = "done"

\* status === 'done' || status === 'fixed'
IsDoneStatus(status) == status = "done" \/ status = "fixed"

\* for (const version of fixVersions) { stats.total++; if (done) stats.done++; }
RECURSIVE StatsAfterFixVersions(_, _, _)
StatsAfterFixVersions(map, fixVersions, status) ==
  IF fixVersions = << >> THEN map
  ELSE LET versionId == Head(fixVersions).id
           stats == IF versionId \in DOMAIN map THEN map[versionId]
                    ELSE [done |-> 0, total |-> 0]
           counted == [total |-> stats.total + 1,
                       done |-> IF IsDoneStatus(status) THEN stats.done + 1 ELSE stats.done]
       IN  StatsAfterFixVersions(
             [k \in DOMAIN map \cup {versionId} |-> IF k = versionId THEN counted ELSE map[k]],
             Tail(fixVersions), status)

\* for (const issue of issues) { if (fixVersions && fixVersions.length > 0) ... }
RECURSIVE StatsAfterIssues(_, _)
StatsAfterIssues(map, issues) ==
  IF issues = << >> THEN map
  ELSE LET issue == Head(issues)
           fixVersions == issue.fields[1].fixVersions
       IN  StatsAfterIssues(
             IF fixVersions = Undefined THEN map
             ELSE StatsAfterFixVersions(map, fixVersions[1], LowerStatusOf(issue)),
             Tail(issues))

\* versionStatsMap.get(id) after the loop; undefined when no issue names the version
VersionStats(issues, id) ==
  LET versionStatsMap == StatsAfterIssues(<< >>, issues)
  IN  IF id \in DOMAIN versionStatsMap THEN Some(versionStatsMap[id]) ELSE Undefined

\* issuesFixedCount taken from the total of the version instead of its done count
WithIssueCountsOfAll(version, stats) ==
  [version EXCEPT !.issueCounts =
     Some([issuesFixedCount |-> Some(IF stats = Undefined THEN 0 ELSE stats[1].total),
           totalIssues |-> Some(IF stats = Undefined THEN 0 ELSE stats[1].total)])]

\* { ...version, issueCounts: { issuesFixedCount: stats?.done ?? 0, totalIssues: stats?.total ?? 0 } }
WithIssueCounts(version, stats) ==
  [version EXCEPT !.issueCounts =
     Some([issuesFixedCount |-> Some(IF stats = Undefined THEN 0 ELSE stats[1].done),
           totalIssues |-> Some(IF stats = Undefined THEN 0 ELSE stats[1].total)])]

\* versions.map(...)
FinalVersions(versions, issues) ==
  [i \in 1..Len(versions) |-> WithIssueCounts(versions[i], VersionStats(issues, versions[i].id))]

VersionsListRequest(projectKey) ==
  [url |-> "/rest/api/3/project/" \o projectKey \o "/versions", method |-> "GET",
   jql |-> "", fields |-> << >>, maxResults |-> Undefined]

VersionsSearchRequest(projectKey) ==
  [url |-> "/rest/api/3/search/jql", method |-> "POST",
   jql |-> "project = \"" \o projectKey \o "\"",
   fields |-> <<"status", "fixVersions">>, maxResults |-> Some(1000)]

\* the statements after `await Promise.all([...])` resolved
VersionsComputed(list, search) ==
  IF ~list.json \/ ~search.json THEN InternalServerError(JsonSyntaxError)
  ELSE IF \E i \in 1..Len(IssuesOrEmpty(search.data)) :
            StatusLookupThrows(IssuesOrEmpty(search.data)[i])
    THEN InternalServerError("Cannot read properties of undefined")
  ELSE [status |-> 200, versions |-> FinalVersions(list.data[1], IssuesOrEmpty(search.data))]

\* the handler up to `await Promise.all([fetchWithRetry(...), fetchWithRetry(...)])`
VersionsStart ==
  /\ vpc = "start"
  /\ IF vConfigured
       THEN /\ vRequests' = vRequests \o <<VersionsListRequest(vProjectKey),
                                            VersionsSearchRequest(vProjectKey)>>
            /\ vList' = FetchPending
            /\ vSearch' = FetchPending
            /\ vpc' = "fetching"
            /\ vResponse' = vResponse
       ELSE /\ vResponse' = InternalServerError("Missing Jira environment variables")
            /\ vpc' = "done"
            /\ UNCHANGED <<vRequests, vList, vSearch>>
  /\ UNCHANGED <<vConfigured, vProjectKey>>
  /\ UNCHANGED notVersionsVars

\* what the handler does when one of the two calls of Promise.all settles:
\* Promise.all rejects with the first rejection (catch: 500) and resolves when
\* both calls have returned
AfterSettle(list, search) ==
  IF list.settled = "threw" THEN /\ vResponse' = InternalServerError(list.message)
                                 /\ vpc' = "done"
  ELSE IF search.settled = "threw" THEN /\ vResponse' = InternalServerError(search.message)
                                        /\ vpc' = "done"
  ELSE IF list.settled = "returned" /\ search.settled = "returned"
    THEN /\ vResponse' = VersionsComputed(list, search)
         /\ vpc' = "done"
  ELSE UNCHANGED <<vResponse, vpc>>

\* the fetchWithRetry call for the version list settles
VersionsListSettles ==
  /\ vpc = "fetching"
  /\ vList = FetchPending
  /\ \E o \in ListOutcomes :
       /\ vList' = o
       /\ AfterSettle(o, vSearch)
  /\ UNCHANGED <<vConfigured, vProjectKey, vRequests, vSearch>>
  /\ UNCHANGED notVersionsVars

\* the fetchWithRetry call for the issue search settles
VersionsSearchSettles ==
  /\ vpc = "fetching"
  /\ vSearch = FetchPending
  /\ \E o \in StatsOutcomes :
       /\ vSearch' = o
       /\ AfterSettle(vList, o)
  /\ UNCHANGED <<vConfigured, vProjectKey, vRequests, vList>>
  /\ UNCHANGED notVersionsVars

InitVersions ==
  /\ IdleExcept("versions")
  /\ vConfigured \in BOOLEAN
  /\ vProjectKey \in ProjectKeyInputs
  /\ vpc = "start"
  /\ vRequests = << >>
  /\ vList = NoFetch
  /\ vSearch = NoFetch
  /\ vResponse = NoHttpResponse

NextVersions ==
  \/ VersionsStart
  \/ VersionsListSettles
  \/ VersionsSearchSettles

SpecVersions == InitVersions /\ [][NextVersions]_vars

(***************************************************************************)
(* GET /api/projects                                                       *)
(***************************************************************************)
ProjectNames == {"A", "B", "C"}

\* what the upstream holds for each project: the entry of the project list,
\* the display name of the lead (project B has no lead, the lead of project C
\* has an empty display name) and the issues
UpstreamProject(k) == [id |-> "id" \o k, key |-> k, name |-> "Project " \o k]

UpstreamLead(k) ==
  CASE k = "A" -> Some("Ann")
    [] k = "B" -> Undefined
    [] OTHER -> Some("")

UpstreamIssues(k) ==
  CASE k = "A" -> << IssueWithStatusName(Some("Done")), IssueWithStatusName(Some("To Do")),
                     IssueWithStatusName(Some("Done")) >>
    [] k = "B" -> << >>
    [] OTHER -> << [fields |-> Some([status |-> Undefined]) ] >>

\* the project lists explored: at most MaxProjects projects, none twice
ProjectListInputs ==
  { l \in UNION { [1..n -> ProjectNames] : n \in 0..MaxProjects } :
      \A i, j \in 1..Len(l) : i # j => l[i] # l[j] }

ProjectListOutcomes ==
  { FetchThrew(m) : m \in ErrorMessages }
  \cup { FetchReturned(FALSE, Undefined) }
  \cup { FetchReturned(TRUE, Some([i \in 1..Len(l) |-> UpstreamProject(l[i])])) :
           l \in ProjectListInputs }

\* the lead fetch of project k: threw, a body that is not JSON, or the details
LeadOutcomes(k) ==
  { FetchThrew(m) : m \in ErrorMessages }
  \cup { FetchReturned(FALSE, Undefined), FetchReturned(TRUE, Some(UpstreamLead(k))) }

\* the issue search of project k: threw, a body that is not JSON, or the issues
ProjectSearchOutcomes(k) ==
  { FetchThrew(m) : m \in ErrorMessages }
  \cup { FetchReturned(FALSE, Undefined), FetchReturned(TRUE, Some(UpstreamIssues(k))) }

\* a call whose result the handler could not use: fetchWithRetry threw, or
\* response.json() threw
CallFailed(o) == o.settled = "threw" \/ ~o.json

\* let leadName = 'N/A'; try { ...; leadName = details?.lead?.displayName ?? 'N/A' } catch {}
LeadNameAfter(o) ==
  IF CallFailed(o) THEN "N/A" ELSE Coalesce(o.data[1], Some("N/A"))[1]

\* the taskCounts of a project never leave their initial value
TaskCountsNeverAssigned(o) == [total |-> 0, counts |-> << >>]

\* let taskCounts = { total: 0, counts: {} }; try { ...; taskCounts = { total, counts } } catch {}
TaskCountsAfter(o) ==
  IF CallFailed(o) THEN [total |-> 0, counts |-> << >>]
  ELSE TaskCountsOf(IssuesOrEmpty(o.data))

\* { id, key, name, lead: leadName ? { displayName: leadName } : null, taskCounts }
ProjectRecord(project, leadName, taskCounts) ==
  [id |-> project.id, key |-> project.key, name |-> project.name,
   lead |-> IF leadName = "" THEN Undefined ELSE Some([displayName |-> leadName]),
   taskCounts |-> taskCounts]

ProjectListRequest ==
  [url |-> "/rest/api/3/project/search", method |-> "GET",
   jql |-> "", fields |-> << >>, maxResults |-> Undefined]

ProjectLeadRequest(key) ==
  [url |-> "/rest/api/3/project/" \o key, method |-> "GET",
   jql |-> "", fields |-> << >>, maxResults |-> Undefined]

ProjectSearchRequest(key) ==
  [url |-> "/rest/api/3/search/jql", method |-> "POST",
   jql |-> "project=\"" \o key \o "\"", fields |-> <<"status">>, maxResults |-> Some(1000)]

\* NextResponse.json({ error: error.message }, { status: 500 })
ProjectsError(message) == [status |-> 500, error |-> message]

\* the handler up to the first `await fetchWithRetry(...)`
ProjectsStart ==
  /\ ppc = "start"
  /\ IF pConfigured
       THEN /\ pRequests' = Append(pRequests, ProjectListRequest)
            /\ ppc' = "list"
            /\ pResponse' = pResponse
       ELSE /\ pResponse' = ProjectsError("Missing Jira environment variables")
            /\ ppc' = "done"
            /\ pRequests' = pRequests
  /\ UNCHANGED <<pConfigured, pValues, pIndex, pLeadName, pProjects, pLeadCalls, pSearchCalls>>
  /\ UNCHANGED notProjectsVars

\* the loop reaches project i of values: the lead request goes out, or, past
\* the last project, the list is returned
EnterIteration(values, i, projects) ==
  IF i <= Len(values)
    THEN /\ pIndex' = i
         /\ pRequests' = Append(pRequests, ProjectLeadRequest(values[i].key))
         /\ ppc' = "lead"
         /\ pResponse' = pResponse
    ELSE /\ pIndex' = i
         /\ pRequests' = pRequests
         /\ ppc' = "done"
         /\ pResponse' = [status |-> 200, projects |-> projects]

\* the project search settles: const { values } = await projectRes.json()
ProjectsListSettles ==
  /\ ppc = "list"
  /\ \E o \in ProjectListOutcomes :
       IF o.settled = "threw" \/ ~o.json
         THEN /\ pResponse' = ProjectsError(IF o.settled = "threw" THEN o.message
                                            ELSE JsonSyntaxError)
              /\ ppc' = "done"
              /\ UNCHANGED <<pValues, pIndex, pRequests>>
         ELSE /\ pValues' = o.data[1]
              /\ EnterIteration(o.data[1], 1, << >>)
  /\ UNCHANGED <<pConfigured, pLeadName, pProjects, pLeadCalls, pSearchCalls>>
  /\ UNCHANGED notProjectsVars

\* the lead fetch of the current project settles; the issue search goes out
ProjectsLeadSettles ==
  /\ ppc = "lead"
  /\ \E o \in LeadOutcomes(pValues[pIndex].key) :
       /\ pLeadName' = Some(LeadNameAfter(o))
       /\ pLeadCalls' = Append(pLeadCalls, o)
  /\ pRequests' = Append(pRequests, ProjectSearchRequest(pValues[pIndex].key))
  /\ ppc' = "search"
  /\ UNCHANGED <<pConfigured, pValues, pIndex, pProjects, pSearchCalls, pResponse>>
  /\ UNCHANGED notProjectsVars

\* the issue search of the current project settles; the record is pushed and
\* the loop goes on
ProjectsSearchSettles ==
  /\ ppc = "search"
  /\ \E o \in ProjectSearchOutcomes(pValues[pIndex].key) :
       LET record == ProjectRecord(pValues[pIndex], pLeadName[1], TaskCountsAfter(o))
       IN  /\ pSearchCalls' = Append(pSearchCalls, o)
           /\ pProjects' = Append(pProjects, record)
           /\ EnterIteration(pValues, pIndex + 1, Append(pProjects, record))
  /\ UNCHANGED <<pConfigured, pValues, pLeadName, pLeadCalls>>
  /\ UNCHANGED notProjectsVars

InitProjects ==
  /\ IdleExcept("projects")
  /\ pConfigured \in BOOLEAN
  /\ ppc = "start"
  /\ pRequests = << >>
  /\ pValues = << >>
  /\ pIndex = 0
  /\ pLeadName = Undefined
  /\ pProjects = << >>
  /\ pLeadCalls = << >>
  /\ pSearchCalls = << >>
  /\ pResponse = NoHttpResponse

NextProjects ==
  \/ ProjectsStart
  \/ ProjectsListSettles
  \/ ProjectsLeadSettles
  \/ ProjectsSearchSettles

SpecProjects == InitProjects /\ [][NextProjects]_vars

(***************************************************************************)
(* The dashboard page: three SWR groups joined in enrichedProjects         *)
(***************************************************************************)
DashProject(k) == [id |-> "id" \o k, key |-> k, name |-> "Project " \o k, lead |-> Undefined]

\* a version as the page reads it; dates are ISO day strings
DashVersion(name, status, startDate, releaseDate, fixedCount) ==
  [id |-> name, name |-> name, status |-> status,
   startDate |-> startDate, releaseDate |-> releaseDate,
   issueCounts |-> Some([issuesFixedCount |-> Some(fixedCount), totalIssues |-> Some(fixedCount)])]

\* what fetcher(url) can resolve to for project k, per group
DashResults(g, k) ==
  CASE g = "tasks" ->
         IF k = "A"
           THEN { [total |-> 3, counts |-> [n \in {"Done", "Blocked"} |-> IF n = "Done" THEN 2 ELSE 1]],
                  [total |-> 1, counts |-> [n \in {"To Do"} |-> 1]] }
           ELSE { [total |-> 2, counts |-> [n \in {"done"} |-> 2]] }
    [] g = "versions" ->
         IF k = "A"
           THEN { << DashVersion("v2", Some("Archived"), Undefined, Some("2024-09-01"), 1),
                     DashVersion("v1", Undefined, Some("2024-03-01"), Undefined, 2),
                     DashVersion("v0", Undefined, Undefined, Undefined, 0) >>,
                  << >> }
           ELSE { << DashVersion("v3", Some("Released"), Undefined, Some("2024-06-01"), 4) >> }
    [] OTHER ->
         IF k = "A" THEN { <<"u1", "u2">> } ELSE { <<"u3">> }

\* fetcher(u) settled: it threw (a non-2xx answer, a network error, a body
\* that is not JSON) or it returned the parsed body
DashThrew == [failed |-> TRUE, value |-> Undefined]
DashReturned(v) == [failed |-> FALSE, value |-> Some(v)]

DashOutcomes(g, k) == {DashThrew} \cup { DashReturned(v) : v \in DashResults(g, k) }

\* how fetcher(u) can settle in this run
Settlements(g, k) == IF dFlaky THEN DashOutcomes(g, k) ELSE DashOutcomes(g, k) \ {DashThrew}

\* the value of the .catch(() => ...) of a group
GroupDefault(g) == IF g = "tasks" THEN [total |-> 0, counts |-> << >>] ELSE << >>

\* fetcher(u).catch(() => default): what the promise of one url resolves to
Caught(g, o) == IF o.failed THEN GroupDefault(g) ELSE o.value[1]

\* Promise.all(...) without the per-url catch: one rejection rejects the group
GroupResultAllOrNothing(g, calls) ==
  IF \E i \in 1..Len(calls) : calls[i].failed THEN Undefined
  ELSE Some([i \in 1..Len(calls) |-> calls[i].value[1]])

\* const res = await Promise.all(urls.map((u) => fetcher(u).catch(() => default)))
GroupResult(g, calls) == Some([i \in 1..Len(calls) |-> Caught(g, calls[i])])

\* the array handed over as each promise is fulfilled, without waiting for the
\* others
AwaitedOneByOne(g, calls) ==
  GroupResult(g, [j \in 1..Len(SelectSeq(calls, LAMBDA c : c # Undefined)) |->
                    SelectSeq(calls, LAMBDA c : c # Undefined)[j][1]])

\* await Promise.all(...): nothing until every fetcher(u) has settled, then
\* the whole array
Awaited(g, calls) ==
  IF \A j \in 1..Len(calls) : calls[j] # Undefined
    THEN GroupResult(g, [j \in 1..Len(calls) |-> calls[j][1]])
    ELSE Undefined

\* projects?.map((p) => p.key) ?? []
projectKeys == IF dProjects = Undefined THEN << >>
               ELSE [i \in 1..Len(dProjects[1]) |-> dProjects[1][i].key]

\* array?.[i] ?? fallback
AtOr(array, i, fallback) ==
  IF array = Undefined THEN fallback
  ELSE IF i \in 1..Len(array[1]) THEN array[1][i] ELSE fallback

\* a.releaseDate || a.startDate
DateOf(v) == IF v.releaseDate # Undefined THEN v.releaseDate ELSE v.startDate

\* the dates the versions carry, in chronological order
DateStrings == <<"2024-01-01", "2024-03-01", "2024-06-01", "2024-09-01">>

\* new Date(d).getTime() of these dates, in days since the epoch (the
\* comparator uses only the sign of a difference)
GetTime(d) ==
  CASE d = "2024-01-01" -> 19723
    [] d = "2024-03-01" -> 19783
    [] d = "2024-06-01" -> 19875
    [] OTHER -> 19967

\* the names the versions carry, in the order localeCompare gives them
VersionNames == <<"alpha", "Beta", "v0", "v1", "v2", "v3">>

NameRank(name) == CHOOSE i \in 1..Len(VersionNames) : VersionNames[i] = name

\* the comparator with the undated versions put behind the dated ones
CompareVersionsUndatedLater(a, b) ==
  LET dateA == DateOf(a)
      dateB == DateOf(b)
  IN  IF dateA # Undefined /\ dateB # Undefined THEN GetTime(dateA[1]) - GetTime(dateB[1])
      ELSE IF dateA # Undefined THEN -1
      ELSE IF dateB # Undefined THEN 1
      ELSE NameRank(a.name) - NameRank(b.name)

\* the comparator of the sort: negative, zero or positive
CompareVersions(a, b) ==
  LET dateA == DateOf(a)
      dateB == DateOf(b)
  IN  IF dateA # Undefined /\ dateB # Undefined THEN GetTime(dateA[1]) - GetTime(dateB[1])
      ELSE IF dateA # Undefined THEN 1
      ELSE IF dateB # Undefined THEN -1
      ELSE NameRank(a.name) - NameRank(b.name)

\* Array.prototype.sort is stable: an element goes behind the last element
\* that does not compare greater
RECURSIVE InsertVersion(_, _)
InsertVersion(sorted, v) ==
  IF sorted = << >> THEN <<v>>
  ELSE IF CompareVersions(Last(sorted), v) <= 0 THEN Append(sorted, v)
  ELSE Append(InsertVersion(SubSeq(sorted, 1, Len(sorted) - 1), v), Last(sorted))

RECURSIVE SortVersions(_)
SortVersions(versions) ==
  IF versions = << >> THEN << >>
  ELSE InsertVersion(SortVersions(SubSeq(versions, 1, Len(versions) - 1)), Last(versions))

\* the version list left unfiltered
NotArchivedUnfiltered(versions) == versions

\* versions.filter((v) => v.status !== 'Archived')
NotArchived(versions) == SelectSeq(versions, LAMBDA v : v.status # Some("Archived"))

\* sortedVersions.length ? sortedVersions[sortedVersions.length - 1] : undefined
LatestVersionOf(versions) ==
  LET sortedVersions == SortVersions(NotArchived(versions))
  IN  IF Len(sortedVersions) > 0 THEN Some(Last(sortedVersions)) ELSE Undefined

\* the locals of the map callback for project i
TaskDataAt(i) == AtOr(dData["tasks"], i, [total |-> 0, counts |-> << >>])
VersionsAt(i) == AtOr(dData["versions"], i, << >>)
UserListAt(i) == AtOr(dData["users"], i, << >>)

\* { ...p, taskCounts: taskData, latestVersion, members, health }
Enriched(p, i) ==
  [taskCounts |-> TaskDataAt(i),
   latestVersion |-> LatestVersionOf(VersionsAt(i)),
   members |-> Len(UserListAt(i)),
   health |-> getVersionBasedHealth(TaskDataAt(i), LatestVersionOf(VersionsAt(i)))] @@ p

\* what a render computes from the SWR data of the moment
enrichedProjects ==
  IF dProjects = Undefined THEN << >>
  ELSE [i \in 1..Len(dProjects[1]) |-> Enriched(dProjects[1][i], i)]

\* useSWR('/api/projects', fetcher) delivers the project list
DashProjectsLoad ==
  /\ dProjects = Undefined
  /\ \E l \in DashProjectLists :
       dProjects' = Some([i \in 1..Len(l) |-> DashProject(l[i])])
  /\ UNCHANGED <<dFlight, dData, dCalls, dCache, dStale, dRefreshes, dFlaky>>
  /\ UNCHANGED notDashboardVars

\* useSWR with keepPreviousData: a key without stored data shows the data of
\* the key before
HookDataKeepPrevious(cache, key, previous) ==
  IF key = << >> THEN Undefined
  ELSE IF cache[key] = Undefined THEN previous
  ELSE cache[key]

\* `data` of useSWR(key, ...): what the cache holds for the key of this
\* render, undefined for a null key and for a key without stored data
HookData(cache, key, previous) ==
  IF key = << >> THEN Undefined ELSE cache[key]

\* the calls of a fetcher run, as the run that useSWR is waiting for
FlightOf(calls) ==
  Some([i \in 1..Len(calls) |-> IF calls[i] = Undefined THEN "pending" ELSE "settled"])

\* refreshInterval of useSWR('/api/projects'): the list is fetched again and
\* may come back changed (projects added, removed, reordered). The key of
\* each group hook is the url list: with another key the hook returns what
\* the cache holds for that key, and the fetcher that runs for the old key
\* goes on; its result is stored under the old key.
DashProjectsRefresh ==
  /\ dProjects # Undefined
  /\ dRefreshes < MaxRefreshes
  /\ dRefreshes' = dRefreshes + 1
  /\ \E l \in DashProjectLists :
       /\ l # projectKeys
       /\ dProjects' = Some([i \in 1..Len(l) |-> DashProject(l[i])])
       /\ LET parked == [g \in DashGroups |->
                          IF dFlight[g] = Undefined THEN dStale[g]
                          ELSE [dStale[g] EXCEPT ![projectKeys] = Some(dCalls[g])]]
          IN  /\ dData' = [g \in DashGroups |-> HookData(dCache[g], l, dData[g])]
              /\ dCalls' = [g \in DashGroups |->
                              IF l # << >> /\ parked[g][l] # Undefined
                                THEN parked[g][l][1] ELSE << >>]
              /\ dFlight' = [g \in DashGroups |->
                               IF l # << >> /\ parked[g][l] # Undefined
                                 THEN FlightOf(parked[g][l][1]) ELSE Undefined]
              /\ dStale' = [g \in DashGroups |->
                              IF l = << >> THEN parked[g]
                              ELSE [parked[g] EXCEPT ![l] = Undefined]]
  /\ UNCHANGED <<dCache, dFlaky>>
  /\ UNCHANGED notDashboardVars

\* useSWR(projectKeys.length ? urls : null, ...) runs the fetcher of group g:
\* one fetcher(u) per url
GroupStart(g) ==
  /\ Len(projectKeys) > 0
  /\ dFlight[g] = Undefined
  /\ dData[g] = Undefined
  /\ dFlight' = [dFlight EXCEPT ![g] = Some([i \in 1..Len(projectKeys) |-> "pending"])]
  /\ dCalls' = [dCalls EXCEPT ![g] = [i \in 1..Len(projectKeys) |-> Undefined]]
  /\ UNCHANGED <<dProjects, dData, dCache, dStale, dRefreshes, dFlaky>>
  /\ UNCHANGED notDashboardVars

\* refreshInterval of a group hook: the fetcher runs again for the same key
\* while the hook goes on returning the data it has
GroupRevalidate(g) ==
  /\ Len(projectKeys) > 0
  /\ dFlight[g] = Undefined
  /\ dData[g] # Undefined
  /\ dRefreshes < MaxRefreshes
  /\ dRefreshes' = dRefreshes + 1
  /\ dFlight' = [dFlight EXCEPT ![g] = Some([i \in 1..Len(projectKeys) |-> "pending"])]
  /\ dCalls' = [dCalls EXCEPT ![g] = [i \in 1..Len(projectKeys) |-> Undefined]]
  /\ UNCHANGED <<dProjects, dData, dCache, dStale, dFlaky>>
  /\ UNCHANGED notDashboardVars

\* fetcher(urls[i]) of group g settles, in any order; with the last one
\* Promise.all resolves and SWR stores the array
SubFetchSettles(g, i) ==
  /\ dFlight[g] # Undefined
  /\ i \in 1..Len(dFlight[g][1])
  /\ dFlight[g][1][i] = "pending"
  /\ \E o \in Settlements(g, projectKeys[i]) :
       LET calls == [dCalls[g] EXCEPT ![i] = Some(o)]
       IN  /\ dCalls' = [dCalls EXCEPT ![g] = calls]
           /\ IF Awaited(g, calls) # Undefined
                THEN /\ dData' = [dData EXCEPT ![g] = Awaited(g, calls)]
                     /\ dCache' = [dCache EXCEPT ![g][projectKeys] = Awaited(g, calls)]
                     /\ dFlight' = [dFlight EXCEPT ![g] = Undefined]
                ELSE /\ dData' = dData
                     /\ dCache' = dCache
                     /\ dFlight' = [dFlight EXCEPT ![g][1][i] = "settled"]
  /\ UNCHANGED <<dProjects, dStale, dRefreshes, dFlaky>>
  /\ UNCHANGED notDashboardVars

\* fetcher(urls[i]) settles in a run whose key is no longer the key of the
\* hook; with the last one the array is stored in the cache under that key
StaleSubFetchSettles(g, key, i) ==
  /\ dStale[g][key] # Undefined
  /\ i \in 1..Len(key)
  /\ dStale[g][key][1][i] = Undefined
  /\ \E o \in Settlements(g, key[i]) :
       LET calls == [dStale[g][key][1] EXCEPT ![i] = Some(o)]
       IN  IF Awaited(g, calls) # Undefined
             THEN /\ dCache' = [dCache EXCEPT ![g][key] = Awaited(g, calls)]
                  /\ dStale' = [dStale EXCEPT ![g][key] = Undefined]
             ELSE /\ dCache' = dCache
                  /\ dStale' = [dStale EXCEPT ![g][key] = Some(calls)]
  /\ UNCHANGED <<dProjects, dFlight, dData, dCalls, dRefreshes, dFlaky>>
  /\ UNCHANGED notDashboardVars

InitDashboard ==
  /\ IdleExcept("dashboard")
  /\ dProjects = Undefined
  /\ dFlight = [g \in DashGroups |-> Undefined]
  /\ dData = [g \in DashGroups |-> Undefined]
  /\ dCalls = [g \in DashGroups |-> << >>]
  /\ dCache = EmptyCache
  /\ dStale = EmptyCache
  /\ dRefreshes = 0
  /\ dFlaky = TRUE

\* the first load of the page, before a refresh timer fires
NextDashboard ==
  \/ DashProjectsLoad
  \/ \E g \in DashGroups : GroupStart(g)
  \/ \E g \in DashGroups : \E i \in 1..Len(projectKeys) : SubFetchSettles(g, i)

SpecDashboard == InitDashboard /\ [][NextDashboard]_vars

\* the page with its refresh timers, against API routes that answer
InitRefresh ==
  /\ IdleExcept("dashboard")
  /\ dProjects = Undefined
  /\ dFlight = [g \in DashGroups |-> Undefined]
  /\ dData = [g \in DashGroups |-> Undefined]
  /\ dCalls = [g \in DashGroups |-> << >>]
  /\ dCache = EmptyCache
  /\ dStale = EmptyCache
  /\ dRefreshes = 0
  /\ dFlaky = FALSE

NextRefresh ==
  \/ DashProjectsLoad
  \/ DashProjectsRefresh
  \/ \E g \in DashGroups : GroupStart(g)
  \/ \E g \in DashGroups : GroupRevalidate(g)
  \/ \E g \in DashGroups : \E i \in 1..Len(projectKeys) : SubFetchSettles(g, i)
  \/ \E g \in DashGroups : \E key \in DashKeys : \E i \in 1..Len(key) :
       StaleSubFetchSettles(g, key, i)

SpecRefresh == InitRefresh /\ [][NextRefresh]_vars

(***************************************************************************)
(* The latest-version resolution, on its own                               *)
(***************************************************************************)
\* the versions explored: three names, archived or not, a start date and a
\* release date that can each be missing (a release date before the start
\* date included)
LatestNames == {"alpha", "Beta", "v1"}

VersionInputs ==
  { DashVersion(n, st, sd, rd, 0) :
      n \in LatestNames, st \in {Undefined, Some("Archived")},
      sd \in {Undefined, Some("2024-03-01")},
      rd \in {Undefined, Some("2024-01-01"), Some("2024-06-01")} }

\* the version lists explored: the names of a project's versions are distinct
VersionLists ==
  { l \in UNION { [1..n -> VersionInputs] : n \in 0..MaxVersions } :
      \A i, j \in 1..Len(l) : i # j => l[i].name # l[j].name }

\* the part of the map callback that resolves latestVersion
ResolveLatest ==
  /\ ~lResolved
  /\ lLatest' = LatestVersionOf(lVersions)
  /\ lResolved' = TRUE
  /\ UNCHANGED lVersions
  /\ UNCHANGED notLatestVars

InitLatest ==
  /\ IdleExcept("latest")
  /\ lVersions \in VersionLists
  /\ lResolved = FALSE
  /\ lLatest = Undefined

NextLatest == ResolveLatest

SpecLatest == InitLatest /\ [][NextLatest]_vars

(***************************************************************************)
(* The versions served by the route, as the dashboard page reads them      *)
(***************************************************************************)
\* a served version read through the JiraVersion type: a property the record
\* does not have reads as undefined
PageVersion(v) ==
  [id |-> v.id, name |-> v.name, status |-> Prop(v, "status"),
   startDate |-> v.startDate, releaseDate |-> v.releaseDate,
   issueCounts |-> v.issueCounts]

PageVersions(versions) == [i \in 1..Len(versions) |-> PageVersion(versions[i])]

(***************************************************************************)
(* GET /api/projects/[projectKey]/issues/[issueKey]                        *)
(***************************************************************************)
\* the issue keys explored, character by character: plain keys (one with a
\* percent-encoded hyphen), a key with a
\* space (literal and percent-encoded), a key with a tab (literal and
\* percent-encoded) and a key whose percent-encoding is malformed
IssueKeyInputs ==
  { <<"A", "-", "1">>, <<"B", "-", "2">>, <<"A", "%", "2", "D", "1">>,
    <<"A", " ", "1">>, <<"A", "%", "2", "0", "1">>,
    <<"A", "\t", "1">>, <<"A", "%", "0", "9", "1">>,
    <<"%", "E", "0">> }

\* the character of a percent-encoded octet; undefined for an octet that is
\* not a whole UTF-8 character (%E0 starts a three-byte character)
PercentOctet(hi, lo) ==
  CASE hi = "2" /\ lo = "0" -> Some(" ")
    [] hi = "0" /\ lo = "9" -> Some("\t")
    [] hi = "2" /\ lo = "D" -> Some("-")
    [] OTHER -> Undefined

\* decodeURIComponent: Some(decoded), or Undefined when it throws a URIError
RECURSIVE DecodeURIComponent(_)
DecodeURIComponent(s) ==
  IF s = << >> THEN Some(<< >>)
  ELSE IF Head(s) # "%"
    THEN LET rest == DecodeURIComponent(Tail(s))
         IN  IF rest = Undefined THEN Undefined ELSE Some(<<Head(s)>> \o rest[1])
  ELSE IF Len(s) < 3 THEN Undefined
  ELSE LET ch == PercentOctet(s[2], s[3])
           rest == DecodeURIComponent(SubSeq(s, 4, Len(s)))
       IN  IF ch = Undefined \/ rest = Undefined THEN Undefined
           ELSE Some(ch \o rest[1])

\* String.prototype.includes for one character
Includes(s, ch) == \E i \in 1..Len(s) : s[i] = ch

\* the messages of the errors the handler can catch: those fetchWithRetry
\* throws, those of response.json() on a body that is not JSON, a TypeError on
\* a body without `fields`, and the missing configuration
IssueJsonErrors == { JsonSyntaxError,
                     "Expected ',' or '}' after property value in JSON at position 404" }

MissingFieldsError == "Cannot read properties of undefined (reading 'issuetype')"

\* error.message.includes('404') on these messages
Includes404(message) ==
  message \in { "Jira API Error: 404 Not Found",
                "Expected ',' or '}' after property value in JSON at position 404" }

\* the JSON bodies the upstream can answer with for the issue `key`
IssueDataInputs(key) ==
  { [key |-> key, fields |-> Undefined] }
  \cup { [key |-> key, fields |-> Some([issuetype |-> t, subtasks |-> st])] :
           t \in {Undefined, Some("Epic"), Some("Task")},
           st \in {Undefined, Some(<<"S-1">>)} }

\* response.json() rejecting with message m
JsonThrew(m) == [FetchReturned(FALSE, Undefined) EXCEPT !.message = m]

IssueOutcomes(key) ==
  { FetchThrew(m) : m \in ErrorMessages }
  \cup { JsonThrew(m) : m \in IssueJsonErrors }
  \cup { FetchReturned(TRUE, Some(d)) : d \in IssueDataInputs(key) }

\* the search for the children of an epic: threw, not JSON, or a body with or
\* without `issues`
ChildrenOutcomes ==
  { FetchThrew(m) : m \in ErrorMessages }
  \cup { JsonThrew(JsonSyntaxError), FetchReturned(TRUE, Undefined),
         FetchReturned(TRUE, Some(<<"C-1">>)), FetchReturned(TRUE, Some(<<"C-1", "C-2">>)) }

\* fetchWithRetry(`${JIRA_BASE_URL}/rest/api/3/issue/${decodedIssueKey}?fields=${fields}`, ...)
IssueRequest(key) ==
  [url |-> "/rest/api/3/issue/", key |-> key, method |-> "GET", search |-> FALSE,
   fields |-> <<"summary", "description", "status", "assignee", "reporter", "priority",
                "labels", "duedate", "issuetype", "parent", "subtasks", "created",
                "updated", "customfield_10016", "issuelinks">>,
   maxResults |-> Undefined]

\* fetchWithRetry(`${JIRA_BASE_URL}/rest/api/3/search?jql=...&fields=summary,status,issuetype,priority`, ...)
EpicChildrenRequest(key) ==
  [url |-> "/rest/api/3/search", key |-> key, method |-> "GET", search |-> TRUE,
   fields |-> <<"summary", "status", "issuetype", "priority">>,
   maxResults |-> Undefined]

\* the 400 of the validation
InvalidIssueKey(key) ==
  [status |-> 400, error |-> "Invalid issue key", details |-> key]

\* the catch of the handler
IssueError(message) ==
  IF Includes404(message)
    THEN [status |-> 404, error |-> "Issue not found", details |-> "does not exist"]
    ELSE [status |-> 500, error |-> "Failed to fetch issue details", details |-> message]

\* data.fields.issuetype?.name || 'Unknown'
IssueTypeOf(data) ==
  IF data.fields[1].issuetype = Undefined THEN "Unknown" ELSE data.fields[1].issuetype[1]

\* NextResponse.json(issue): the type and the children (subtasks, then the
\* children of the epic)
IssueOk(data, epicChildren) ==
  [status |-> 200, key |-> data.key, type |-> IssueTypeOf(data),
   children |-> (IF data.fields[1].subtasks = Undefined THEN << >>
                 ELSE data.fields[1].subtasks[1]) \o epicChildren]

\* the handler up to the first `await fetchWithRetry(...)`
IssueStart ==
  /\ ipc = "start"
  /\ LET decodedIssueKey == DecodeURIComponent(iIssueKey)
     IN  IF decodedIssueKey = Undefined
           THEN /\ ipc' = "threw"
                /\ UNCHANGED <<iRequests, iResponse>>
         ELSE IF Includes(decodedIssueKey[1], " ")
           THEN /\ iResponse' = InvalidIssueKey(decodedIssueKey[1])
                /\ ipc' = "done"
                /\ UNCHANGED iRequests
         ELSE IF ~iConfigured
           THEN /\ iResponse' = IssueError("Jira environment variables not set")
                /\ ipc' = "done"
                /\ UNCHANGED iRequests
         ELSE /\ iRequests' = Append(iRequests, IssueRequest(decodedIssueKey[1]))
              /\ ipc' = "main"
              /\ UNCHANGED iResponse
  /\ UNCHANGED <<iConfigured, iIssueKey, iMain, iData>>
  /\ UNCHANGED notIssueVars

\* the fetch of the main issue settles
IssueMainSettles ==
  /\ ipc = "main"
  /\ \E o \in IssueOutcomes(DecodeURIComponent(iIssueKey)[1]) :
       /\ iMain' = o
       /\ IF o.settled = "threw" \/ ~o.json
            THEN /\ iResponse' = IssueError(o.message)
                 /\ ipc' = "done"
                 /\ UNCHANGED <<iRequests, iData>>
          ELSE IF o.data[1].fields = Undefined
            THEN /\ iResponse' = IssueError(MissingFieldsError)
                 /\ ipc' = "done"
                 /\ UNCHANGED <<iRequests, iData>>
          ELSE IF IssueTypeOf(o.data[1]) = "Epic"
            THEN /\ iRequests' = Append(iRequests,
                                        EpicChildrenRequest(DecodeURIComponent(iIssueKey)[1]))
                 /\ iData' = o.data
                 /\ ipc' = "children"
                 /\ UNCHANGED iResponse
          ELSE /\ iResponse' = IssueOk(o.data[1], << >>)
               /\ iData' = o.data
               /\ ipc' = "done"
               /\ UNCHANGED iRequests
  /\ UNCHANGED <<iConfigured, iIssueKey>>
  /\ UNCHANGED notIssueVars

\* the search for the children of the epic settles; its failure is caught
IssueChildrenSettle ==
  /\ ipc = "children"
  /\ \E o \in ChildrenOutcomes :
       iResponse' = IssueOk(iData[1],
                            IF o.settled = "threw" \/ ~o.json THEN << >>
                            ELSE IssuesOrEmpty(o.data))
  /\ ipc' = "done"
  /\ UNCHANGED <<iConfigured, iIssueKey, iRequests, iMain, iData>>
  /\ UNCHANGED notIssueVars

InitIssue ==
  /\ IdleExcept("issue")
  /\ iConfigured \in BOOLEAN
  /\ iIssueKey \in IssueKeyInputs
  /\ ipc = "start"
  /\ iRequests = << >>
  /\ iMain = NoFetch
  /\ iData = Undefined
  /\ iResponse = NoHttpResponse

NextIssue ==
  \/ IssueStart
  \/ IssueMainSettles
  \/ IssueChildrenSettle

SpecIssue == InitIssue /\ [][NextIssue]_vars

(***************************************************************************)
(* GET /api/projects/[projectKey]/versions/[versionId]                     *)
(***************************************************************************)
\* the path parameters explored; the empty string is a missing parameter
DetailProjectKeys == {"CB", "AB", ""}
DetailVersionIds == {"10001", "10002", ""}

\* the version the upstream holds under an id
UpstreamVersion(id) == [id |-> id, name |-> "v" \o id, archived |-> FALSE, released |-> TRUE]

\* the promise of the version: rejected by fetchWithRetry, rejected by
\* res.json(), or fulfilled with the version
DetailOutcomes(id) ==
  { FetchThrew(m) : m \in ErrorMessages }
  \cup { JsonThrew(JsonSyntaxError), FetchReturned(TRUE, Some(UpstreamVersion(id))) }

\* the promise of the issues of the version: rejected, or fulfilled with a body
\* with or without `issues`
DetailIssueOutcomes ==
  { FetchThrew(m) : m \in ErrorMessages }
  \cup { JsonThrew(JsonSyntaxError), FetchReturned(TRUE, Undefined),
         FetchReturned(TRUE, Some(<< >>)), FetchReturned(TRUE, Some(<<"CB-1", "CB-2">>)) }

\* fetchWithRetry(`${JIRA_BASE_URL}/rest/api/3/version/${versionId}`, ...)
VersionDetailRequest(versionId) ==
  [url |-> "/rest/api/3/version/" \o versionId, method |-> "GET", search |-> FALSE,
   jql |-> "", fields |-> << >>, maxResults |-> Undefined]

\* jqlBody = { jql: `fixVersion = ${versionId}`, fields: [...] }
VersionIssuesRequest(versionId) ==
  [url |-> "/rest/api/3/search/jql", method |-> "POST", search |-> TRUE,
   jql |-> "fixVersion = " \o versionId,
   fields |-> <<"summary", "status", "priority", "assignee">>, maxResults |-> Undefined]

\* NextResponse.json({ error: 'Project key and version ID are required' }, { status: 400 })
DetailParamsRequired == [status |-> 400, error |-> "Project key and version ID are required"]

\* the catch of the handler
DetailError(message) ==
  [status |-> 500, error |-> "Failed to fetch data from Jira", details |-> message]

\* { version: versionDetails, issues: versionIssues.issues }
DetailOk(details, issues) ==
  [status |-> 200, version |-> details.data[1], issues |-> issues.data]

\* the promise rejected: fetchWithRetry threw or res.json() threw
Rejected(o) == o.settled = "threw" \/ (o.settled = "returned" /\ ~o.json)

\* the handler up to `await Promise.all([...])`
DetailStart ==
  /\ vdpc = "start"
  /\ IF vdProjectKey = "" \/ vdVersionId = ""
       THEN /\ vdResponse' = DetailParamsRequired
            /\ vdpc' = "done"
            /\ UNCHANGED <<vdRequests, vdDetails, vdIssues>>
     ELSE IF ~vdConfigured
       THEN /\ vdResponse' = DetailError("Missing Jira environment variables")
            /\ vdpc' = "done"
            /\ UNCHANGED <<vdRequests, vdDetails, vdIssues>>
     ELSE /\ vdRequests' = vdRequests \o <<VersionDetailRequest(vdVersionId),
                                           VersionIssuesRequest(vdVersionId)>>
          /\ vdDetails' = FetchPending
          /\ vdIssues' = FetchPending
          /\ vdpc' = "fetching"
          /\ UNCHANGED vdResponse
  /\ UNCHANGED <<vdConfigured, vdProjectKey, vdVersionId>>
  /\ UNCHANGED notDetailVars

\* what the handler does when one of the two promises of Promise.all settles:
\* the first rejection goes to the catch, two fulfilments to the response
DetailAfterSettle(details, issues) ==
  IF Rejected(details) THEN /\ vdResponse' = DetailError(details.message)
                            /\ vdpc' = "done"
  ELSE IF Rejected(issues) THEN /\ vdResponse' = DetailError(issues.message)
                                /\ vdpc' = "done"
  ELSE IF details.settled = "returned" /\ issues.settled = "returned"
    THEN /\ vdResponse' = DetailOk(details, issues)
         /\ vdpc' = "done"
  ELSE UNCHANGED <<vdResponse, vdpc>>

\* the promise of the version settles
DetailVersionSettles ==
  /\ vdpc = "fetching"
  /\ vdDetails = FetchPending
  /\ \E o \in DetailOutcomes(vdVersionId) :
       /\ vdDetails' = o
       /\ DetailAfterSettle(o, vdIssues)
  /\ UNCHANGED <<vdConfigured, vdProjectKey, vdVersionId, vdRequests, vdIssues>>
  /\ UNCHANGED notDetailVars

\* the promise of the issues of the version settles
DetailIssuesSettle ==
  /\ vdpc = "fetching"
  /\ vdIssues = FetchPending
  /\ \E o \in DetailIssueOutcomes :
       /\ vdIssues' = o
       /\ DetailAfterSettle(vdDetails, o)
  /\ UNCHANGED <<vdConfigured, vdProjectKey, vdVersionId, vdRequests, vdDetails>>
  /\ UNCHANGED notDetailVars

InitDetail ==
  /\ IdleExcept("detail")
  /\ vdConfigured \in BOOLEAN
  /\ vdProjectKey \in DetailProjectKeys
  /\ vdVersionId \in DetailVersionIds
  /\ vdpc = "start"
  /\ vdRequests = << >>
  /\ vdDetails = NoFetch
  /\ vdIssues = NoFetch
  /\ vdResponse = NoHttpResponse

NextDetail ==
  \/ DetailStart
  \/ DetailVersionSettles
  \/ DetailIssuesSettle

SpecDetail == InitDetail /\ [][NextDetail]_vars

(***************************************************************************)
(* GET /api/projects/[projectKey]/all-issues                               *)
(***************************************************************************)
\* the environment check with the token left out
EnvironmentSetWithoutToken(baseUrl, apiUser, apiToken) == baseUrl /\ apiUser

\* !(!JIRA_BASE_URL || !JIRA_API_USER || !JIRA_API_TOKEN)
EnvironmentSet(baseUrl, apiUser, apiToken) == baseUrl /\ apiUser /\ apiToken

\* the issues of a search result, as the route reads them
AllIssuesLists == UNION { [1..n -> IssueInputs] : n \in 0..(MaxIssues - 1) }

\* what fetchWithRetry and the body of its response can be
AllIssuesOutcomes ==
  { FetchThrew(m) : m \in ErrorMessages }
  \cup { FetchReturned(FALSE, Undefined), FetchReturned(TRUE, Undefined) }
  \cup { FetchReturned(TRUE, Some(l)) : l \in AllIssuesLists }

\* const body = { jql: `project = "${projectKey}" AND issuetype IN (Task, Story, Epic)`,
\*                fields, maxResults: 1000 }
AllIssuesRequest(projectKey) ==
  [url |-> "/rest/api/3/search/jql", method |-> "POST",
   jql |-> "project = \"" \o projectKey \o "\" AND issuetype IN (Task, Story, Epic)",
   fields |-> <<"summary", "status", "issuetype", "priority", "assignee", "created", "updated">>,
   maxResults |-> Some(1000)]

\* NextResponse.json({ error: 'Failed to fetch issues', details: error.message }, { status: 500 })
AllIssuesError(message) ==
  [status |-> 500, error |-> "Failed to fetch issues", details |-> message]

\* the TypeError of `data.issues.map` when the body has no `issues`
NoIssuesTypeError == "Cannot read properties of undefined (reading 'map')"

\* the TypeError of `issue.fields.summary` when an issue has no `fields`
NoFieldsTypeError == "Cannot read properties of undefined (reading 'summary')"

\* the object built for one issue: status: issue.fields.status?.name || 'Unknown'
AllIssuesItem(issue) == [status |-> OrUnknown(StatusNameOf(issue))]

\* NextResponse.json(issues)
AllIssuesOk(issues) ==
  [status |-> 200, issues |-> [i \in 1..Len(issues) |-> AllIssuesItem(issues[i])]]

\* the response once the body has been parsed
AllIssuesMapped(data) ==
  IF data = Undefined THEN AllIssuesError(NoIssuesTypeError)
  ELSE IF \E i \in 1..Len(data[1]) : data[1][i].fields = Undefined
    THEN AllIssuesError(NoFieldsTypeError)
  ELSE AllIssuesOk(data[1])

\* the handler up to `await fetchWithRetry(...)`
AllIssuesStart ==
  /\ aipc = "start"
  /\ IF EnvironmentSet(aiBaseUrl, aiApiUser, aiApiToken)
       THEN /\ aiRequests' = Append(aiRequests, AllIssuesRequest(aiProjectKey))
            /\ aipc' = "fetching"
            /\ UNCHANGED aiResponse
       ELSE /\ aiResponse' = AllIssuesError("Jira environment variables not set")
            /\ aipc' = "done"
            /\ UNCHANGED aiRequests
  /\ UNCHANGED <<aiBaseUrl, aiApiUser, aiApiToken, aiProjectKey>>
  /\ UNCHANGED notAllIssuesVars

\* fetchWithRetry settles; response.json(); the mapping; the response
AllIssuesSettle ==
  /\ aipc = "fetching"
  /\ \E o \in AllIssuesOutcomes :
       aiResponse' =
         IF o.settled = "threw" THEN AllIssuesError(o.message)
         ELSE IF ~o.json THEN AllIssuesError(JsonSyntaxError)
         ELSE AllIssuesMapped(o.data)
  /\ aipc' = "done"
  /\ UNCHANGED <<aiBaseUrl, aiApiUser, aiApiToken, aiProjectKey, aiRequests>>
  /\ UNCHANGED notAllIssuesVars

InitAllIssues ==
  /\ IdleExcept("allIssues")
  /\ aiBaseUrl \in BOOLEAN
  /\ aiApiUser \in BOOLEAN
  /\ aiApiToken \in BOOLEAN
  /\ aiProjectKey \in ProjectKeyInputs
  /\ aipc = "start"
  /\ aiRequests = << >>
  /\ aiResponse = NoHttpResponse

NextAllIssues ==
  \/ AllIssuesStart
  \/ AllIssuesSettle

SpecAllIssues == InitAllIssues /\ [][NextAllIssues]_vars

(***************************************************************************)
(* The pass-through routes: GET users of a project, and the versions route *)
(* that asks the upstream for the issue counts (expand=issueCounts)        *)
(***************************************************************************)
PassThroughRoutes == {"users", "versions"}

PassThroughKeys == {"CB", "AB", ""}

\* the JSON bodies the upstream answers with
PassThroughBodies == {"[]", "[{\"accountId\":\"1\"}]", "{\"errorMessages\":[]}"}

PassThroughOutcomes ==
  { FetchThrew(m) : m \in ErrorMessages }
  \cup { FetchReturned(FALSE, Undefined) }
  \cup { FetchReturned(TRUE, Some(b)) : b \in PassThroughBodies }

\* `${JIRA_BASE_URL}/rest/api/3/user/assignable/search?project=${projectKey}`
UsersRequest(projectKey) ==
  [url |-> "/rest/api/3/user/assignable/search?project=" \o projectKey,
   method |-> "GET", maxResults |-> Undefined, search |-> FALSE]

\* `${JIRA_BASE_URL}/rest/api/3/project/${projectKey}/versions?expand=issueCounts`
ExpandedVersionsRequest(projectKey) ==
  [url |-> "/rest/api/3/project/" \o projectKey \o "/versions?expand=issueCounts",
   method |-> "GET", maxResults |-> Undefined, search |-> FALSE]

\* NextResponse.json({ error: 'Project key is required' }, { status: 400 })
ProjectKeyRequired == [status |-> 400, error |-> "Project key is required"]

\* NextResponse.json(usersData) / NextResponse.json(data)
PassThroughOk(body) == [status |-> 200, body |-> body]

\* the handler up to `await fetchWithRetry(...)`
PassThroughStart ==
  /\ ptpc = "start"
  /\ IF ptRoute = "users" /\ ptProjectKey = ""
       THEN /\ ptResponse' = ProjectKeyRequired
            /\ ptpc' = "done"
            /\ UNCHANGED ptRequests
     ELSE IF ~ptConfigured
       THEN /\ ptResponse' = InternalServerError("Missing Jira environment variables")
            /\ ptpc' = "done"
            /\ UNCHANGED ptRequests
     ELSE /\ ptRequests' = Append(ptRequests,
                                  IF ptRoute = "users" THEN UsersRequest(ptProjectKey)
                                  ELSE ExpandedVersionsRequest(ptProjectKey))
          /\ ptpc' = "fetching"
          /\ UNCHANGED ptResponse
  /\ UNCHANGED <<ptRoute, ptConfigured, ptProjectKey>>
  /\ UNCHANGED notPassThroughVars

\* fetchWithRetry settles; response.json(); the response
PassThroughSettle ==
  /\ ptpc = "fetching"
  /\ \E o \in PassThroughOutcomes :
       ptResponse' =
         IF o.settled = "threw" THEN InternalServerError(o.message)
         ELSE IF ~o.json THEN InternalServerError(JsonSyntaxError)
         ELSE PassThroughOk(o.data[1])
  /\ ptpc' = "done"
  /\ UNCHANGED <<ptRoute, ptConfigured, ptProjectKey, ptRequests>>
  /\ UNCHANGED notPassThroughVars

InitPassThrough ==
  /\ IdleExcept("passThrough")
  /\ ptRoute \in PassThroughRoutes
  /\ ptConfigured \in BOOLEAN
  /\ ptProjectKey \in PassThroughKeys
  /\ ptpc = "start"
  /\ ptRequests = << >>
  /\ ptResponse = NoHttpResponse

NextPassThrough ==
  \/ PassThroughStart
  \/ PassThroughSettle

SpecPassThrough == InitPassThrough /\ [][NextPassThrough]_vars

(***************************************************************************)
(* The API as a whole: one request to one of the GET handlers              *)
(***************************************************************************)
InitApi ==
  \/ InitProjects
  \/ InitTasks
  \/ InitVersions
  \/ InitIssue
  \/ InitAllIssues
  \/ InitDetail
  \/ InitPassThrough

NextApi ==
  \/ NextProjects
  \/ NextTasks
  \/ NextVersions
  \/ NextIssue
  \/ NextAllIssues
  \/ NextDetail
  \/ NextPassThrough

SpecApi == InitApi /\ [][NextApi]_vars

(***************************************************************************)
(* Concurrent invocations of the aggregation handlers (tasks, versions,    *)
(* projects): the invocations interleave at their await points             *)
(***************************************************************************)
Invocations == 1..MaxInvocations

\* what the upstream holds for the versions route
UpstreamVersions(k) ==
  IF k = "A"
    THEN << RawVersion("1", "v1", FALSE, FALSE, Undefined, Undefined),
            RawVersion("2", "v2", TRUE, FALSE, Undefined, Undefined) >>
    ELSE << RawVersion("2", "v2", FALSE, TRUE, Undefined, Undefined) >>

UpstreamStatsIssues(k) ==
  IF k = "A"
    THEN << StatsIssue(Some([name |-> Some("Done")]), Some(<< [id |-> "1"] >>)),
            StatsIssue(Some([name |-> Some("To Do")]), Some(<< [id |-> "1"], [id |-> "2"] >>)) >>
    ELSE << StatsIssue(Some([name |-> Some("FIXED")]), Some(<< [id |-> "2"] >>)) >>

\* the requests of the invocations: a route with its project key, or the
\* projects route with the project list of the moment
ConcurrentInputs ==
  { <<r, <<k>> >> : r \in {"tasks", "versions", "projects"}, k \in {"A", "C"} }
  \cup { <<"projects", <<"A", "C">> >> }

\* an object of the module, shared by every invocation
SharedObject(n) == 1

\* `const counts = {}`, `new Map()`, `const projects = []` are evaluated inside
\* the handler: every invocation has objects of its own
OwnObject(n) == n

NewObjects == [counts |-> << >>, versionStatsMap |-> << >>, projects |-> << >>]

\* versions.map(...) with the statistics of versionStatsMap
MergeStats(versions, versionStatsMap) ==
  [i \in 1..Len(versions) |->
     WithIssueCounts(versions[i],
                     IF versions[i].id \in DOMAIN versionStatsMap
                       THEN Some(versionStatsMap[versions[i].id]) ELSE Undefined)]

\* the handler of invocation n up to its first `await fetchWithRetry(...)`
ConcurrentStart(n) ==
  /\ cpc[n] = "start"
  /\ cpc' = [cpc EXCEPT ![n] = IF cRoute[n] = "projects" THEN "list" ELSE "fetching"]
  /\ UNCHANGED <<cRoute, cKeys, cIndex, cLeadName, cObjects, cResponse>>
  /\ UNCHANGED notConcurrentVars

\* tasks route: the search settled; the loop over the issues fills `counts`
ConcurrentTasksSettle(n) ==
  /\ cpc[n] = "fetching" /\ cRoute[n] = "tasks"
  /\ LET issues == UpstreamIssues(cKeys[n][1])
         counts == CountByStatus(issues, cObjects[OwnObject(n)].counts)
     IN  /\ cObjects' = [cObjects EXCEPT ![OwnObject(n)].counts = counts]
         /\ cResponse' = [cResponse EXCEPT ![n] =
                            [status |-> 200, total |-> Len(issues),
                             counts |-> counts, issues |-> issues]]
  /\ cpc' = [cpc EXCEPT ![n] = "done"]
  /\ UNCHANGED <<cRoute, cKeys, cIndex, cLeadName>>
  /\ UNCHANGED notConcurrentVars

\* versions route: Promise.all resolved; the loop fills `versionStatsMap`
ConcurrentVersionsSettle(n) ==
  /\ cpc[n] = "fetching" /\ cRoute[n] = "versions"
  /\ LET versionStatsMap == StatsAfterIssues(cObjects[OwnObject(n)].versionStatsMap,
                                             UpstreamStatsIssues(cKeys[n][1]))
     IN  /\ cObjects' = [cObjects EXCEPT ![OwnObject(n)].versionStatsMap = versionStatsMap]
         /\ cResponse' = [cResponse EXCEPT ![n] =
                            [status |-> 200,
                             versions |-> MergeStats(UpstreamVersions(cKeys[n][1]),
                                                     versionStatsMap)]]
  /\ cpc' = [cpc EXCEPT ![n] = "done"]
  /\ UNCHANGED <<cRoute, cKeys, cIndex, cLeadName>>
  /\ UNCHANGED notConcurrentVars

\* projects route: the project search settled; the loop starts
ConcurrentListSettles(n) ==
  /\ cpc[n] = "list"
  /\ cIndex' = [cIndex EXCEPT ![n] = 1]
  /\ cpc' = [cpc EXCEPT ![n] = "lead"]
  /\ UNCHANGED <<cRoute, cKeys, cLeadName, cObjects, cResponse>>
  /\ UNCHANGED notConcurrentVars

\* projects route: the lead fetch of the current project settled
ConcurrentLeadSettles(n) ==
  /\ cpc[n] = "lead"
  /\ cLeadName' = [cLeadName EXCEPT ![n] =
       Some(LeadNameAfter(FetchReturned(TRUE, Some(UpstreamLead(cKeys[n][cIndex[n]])))))]
  /\ cpc' = [cpc EXCEPT ![n] = "search"]
  /\ UNCHANGED <<cRoute, cKeys, cIndex, cObjects, cResponse>>
  /\ UNCHANGED notConcurrentVars

\* projects route: the issue search of the current project settled; the
\* record is pushed on `projects`, and after the last project the list is
\* returned
ConcurrentSearchSettles(n) ==
  /\ cpc[n] = "search"
  /\ LET k == cKeys[n][cIndex[n]]
         record == ProjectRecord(UpstreamProject(k), cLeadName[n][1],
                                 TaskCountsAfter(FetchReturned(TRUE, Some(UpstreamIssues(k)))))
         projects == Append(cObjects[OwnObject(n)].projects, record)
     IN  /\ cObjects' = [cObjects EXCEPT ![OwnObject(n)].projects = projects]
         /\ IF cIndex[n] < Len(cKeys[n])
              THEN /\ cpc' = [cpc EXCEPT ![n] = "lead"]
                   /\ UNCHANGED cResponse
              ELSE /\ cpc' = [cpc EXCEPT ![n] = "done"]
                   /\ cResponse' = [cResponse EXCEPT ![n] =
                                      [status |-> 200, projects |-> projects]]
  /\ cIndex' = [cIndex EXCEPT ![n] = cIndex[n] + 1]
  /\ UNCHANGED <<cRoute, cKeys, cLeadName>>
  /\ UNCHANGED notConcurrentVars

InitConcurrent ==
  /\ IdleExcept("concurrent")
  /\ \E inputs \in [Invocations -> ConcurrentInputs] :
       /\ cRoute = [n \in Invocations |-> inputs[n][1]]
       /\ cKeys = [n \in Invocations |-> inputs[n][2]]
  /\ cpc = [n \in Invocations |-> "start"]
  /\ cIndex = [n \in Invocations |-> 0]
  /\ cLeadName = [n \in Invocations |-> Undefined]
  /\ cObjects = [n \in Invocations |-> NewObjects]
  /\ cResponse = [n \in Invocations |-> NoHttpResponse]

NextConcurrent ==
  \E n \in Invocations :
    \/ ConcurrentStart(n)
    \/ ConcurrentTasksSettle(n)
    \/ ConcurrentVersionsSettle(n)
    \/ ConcurrentListSettles(n)
    \/ ConcurrentLeadSettles(n)
    \/ ConcurrentSearchSettles(n)

SpecConcurrent == InitConcurrent /\ [][NextConcurrent]_vars

(***************************************************************************)
(* One project from the upstream to its dashboard card: the tasks route    *)
(* and the versions route search the issues of the project, the page       *)
(* computes the health of the card from what the two routes served         *)
(***************************************************************************)
\* the statuses of the issues at the upstream: none, the two completed
\* statuses, an open one, and a completed one in another spelling
SnapshotStatuses ==
  { Undefined } \cup { Some([name |-> Some(n)]) : n \in {"Done", "Fixed", "To Do", "done"} }

\* the fixVersions of the issues at the upstream; the last one lists a
\* version twice
SnapshotFixVersions ==
  { << >>, << [id |-> "1"] >>, << [id |-> "2"] >>, << [id |-> "1"], [id |-> "2"] >>,
    << [id |-> "2"], [id |-> "2"] >> }

SnapshotIssues == { StatsIssue(st, Some(fv)) : st \in SnapshotStatuses, fv \in SnapshotFixVersions }

SnapshotIssueLists == UNION { [1..n -> SnapshotIssues] : n \in 0..MaxStatsIssues }

\* the versions at the upstream: none, two undated ones (the later name is
\* the latest), and a dated one before an undated one (the dated one is the
\* latest)
SnapshotVersionLists ==
  { << >>,
    << RawVersion("1", "v1", FALSE, TRUE, Undefined, Undefined),
       RawVersion("2", "v2", FALSE, FALSE, Undefined, Undefined) >>,
    << RawVersion("1", "v1", FALSE, FALSE, Undefined, Some("2024-06-01")),
       RawVersion("2", "v2", FALSE, FALSE, Undefined, Undefined) >> }

\* the issues as the search of the tasks route returns them: fields
\* ['status', 'summary']
TasksView(issues) ==
  [i \in 1..Len(issues) |-> [fields |-> Some([status |-> issues[i].fields[1].status])]]

\* res.json() of the tasks response as the page reads it: total and counts,
\* the own properties of counts with their values
ParsedTaskData(tasksResponse) ==
  [total |-> tasksResponse.total,
   counts |-> [k \in DOMAIN tasksResponse.counts |->
                 IF tasksResponse.counts[k].type = "number" THEN tasksResponse.counts[k].num
                 ELSE tasksResponse.counts[k].str]]

\* a render of the card: taskData and versions default to { total: 0, counts: {} }
\* and [] while their hooks have no data
CardHealth(taskData, versionData) ==
  getVersionBasedHealth(
    IF taskData = Undefined THEN [total |-> 0, counts |-> << >>] ELSE taskData[1],
    LatestVersionOf(PageVersions(IF versionData = Undefined THEN << >> ELSE versionData[1])))

\* GET /api/projects/[projectKey]/tasks answers, and the page receives it
SnapshotTasksServed ==
  /\ sTasksSaw = Undefined
  /\ sTasksSaw' = Some(sIssues)
  /\ sTaskData' = Some(ParsedTaskData(TasksOk(TasksView(sIssues))))
  /\ UNCHANGED <<sIssues, sVersions, sChanged, sVersionsSaw, sVersionData, sRender>>
  /\ UNCHANGED notSnapshotVars

\* GET /api/projects/[projectKey]/versions answers, and the page receives it
SnapshotVersionsServed ==
  /\ sVersionsSaw = Undefined
  /\ sVersionsSaw' = Some(sIssues)
  /\ sVersionData' = Some(FinalVersions(sVersions, sIssues))
  /\ UNCHANGED <<sIssues, sVersions, sChanged, sTasksSaw, sTaskData, sRender>>
  /\ UNCHANGED notSnapshotVars

\* an issue is created at the upstream
SnapshotIssueCreated ==
  /\ ~sChanged
  /\ Len(sIssues) < MaxStatsIssues
  /\ \E issue \in SnapshotIssues : sIssues' = Append(sIssues, issue)
  /\ sChanged' = TRUE
  /\ UNCHANGED <<sVersions, sTasksSaw, sVersionsSaw, sTaskData, sVersionData, sRender>>
  /\ UNCHANGED notSnapshotVars

\* the page renders the card with the data it has
SnapshotRender ==
  /\ sRender' = Some([tasksLoaded |-> sTaskData # Undefined,
                      versionsLoaded |-> sVersionData # Undefined,
                      health |-> CardHealth(sTaskData, sVersionData)])
  /\ sRender' # sRender
  /\ UNCHANGED <<sIssues, sVersions, sChanged, sTasksSaw, sVersionsSaw, sTaskData, sVersionData>>
  /\ UNCHANGED notSnapshotVars

InitSnapshot ==
  /\ IdleExcept("snapshot")
  /\ sIssues \in SnapshotIssueLists
  /\ sVersions \in SnapshotVersionLists
  /\ sChanged = FALSE
  /\ sTasksSaw = Undefined
  /\ sVersionsSaw = Undefined
  /\ sTaskData = Undefined
  /\ sVersionData = Undefined
  /\ sRender = Undefined

NextSnapshot ==
  \/ SnapshotTasksServed
  \/ SnapshotVersionsServed
  \/ SnapshotIssueCreated
  \/ SnapshotRender

SpecSnapshot == InitSnapshot /\ [][NextSnapshot]_vars

(***************************************************************************)
(* The progress statistics of the project detail page and of the version   *)
(* detail page                                                             *)
(***************************************************************************)
\* the issues of a list as the routes pass them on from the upstream: without
\* fields, without status, with a status without name, or with a status name
StatsPageIssues ==
  { [fields |-> Undefined],
    [fields |-> Some([status |-> Undefined])],
    [fields |-> Some([status |-> Some([name |-> Undefined])])] }
  \cup { IssueWithStatusName(Some(n)) :
           n \in {"", "Done", "FIXED", "In Progress", "In Review", "Blocked", "To Do"} }

StatsPageIssueLists == UNION { [1..n -> StatsPageIssues] : n \in 0..MaxIssues }

\* if (!issue?.fields?.status) return;
SkippedByProjectPage(issue) ==
  issue.fields = Undefined \/ issue.fields[1].status = Undefined

\* issue.fields.status.name.toLowerCase() throws a TypeError on the version
\* page when fields, status or name is missing
ThrowsOnVersionPage(issue) ==
  \/ issue.fields = Undefined
  \/ issue.fields[1].status = Undefined
  \/ issue.fields[1].status[1].name = Undefined

\* on the project page the issues without status are skipped before: the
\* lookup throws when the status has no name
ThrowsOnProjectPage(issue) ==
  ~SkippedByProjectPage(issue) /\ issue.fields[1].status[1].name = Undefined

\* if (done || fixed) done++; else if (in progress || in review) inProgress++;
\* else if (blocked) blocked++; else todo++;
CountIn(acc, status) ==
  IF status = "done" \/ status = "fixed" THEN [acc EXCEPT !.done = @ + 1]
  ELSE IF status = "in progress" \/ status = "in review" THEN [acc EXCEPT !.inProgress = @ + 1]
  ELSE IF status = "blocked" THEN [acc EXCEPT !.blocked = @ + 1]
  ELSE [acc EXCEPT !.todo = @ + 1]

\* tasks.issues.forEach(...) / data.issues.forEach(...): the callback of the
\* project page returns early for an issue without status
RECURSIVE CountedIssues(_, _, _)
CountedIssues(acc, issues, page) ==
  IF issues = << >> THEN acc
  ELSE CountedIssues(
         IF page = "project" /\ SkippedByProjectPage(Head(issues)) THEN acc
         ELSE CountIn(acc, ToLowerCase(Head(issues).fields[1].status[1].name[1])),
         Tail(issues), page)

\* const stats = { total, todo, inProgress, blocked, done, progress }
StatsOf(issues, page) ==
  LET total == Len(issues)
      counted == CountedIssues([todo |-> 0, inProgress |-> 0, blocked |-> 0, done |-> 0],
                               issues, page)
  IN  [total |-> total, todo |-> counted.todo, inProgress |-> counted.inProgress,
       blocked |-> counted.blocked, done |-> counted.done,
       progress |-> IF total > 0 THEN RoundPercent(counted.done, total) ELSE 0]

\* ProjectDetailPage computes stats during its render
ProjectPageRenders ==
  /\ stpc = "render"
  /\ stPage = "project"
  /\ IF \E i \in 1..Len(stIssues) : ThrowsOnProjectPage(stIssues[i])
       THEN stpc' = "threw" /\ UNCHANGED stStats
       ELSE stpc' = "rendered" /\ stStats' = StatsOf(stIssues, "project")
  /\ UNCHANGED <<stPage, stIssues>>
  /\ UNCHANGED notStatsVars

\* VersionPageClient computes stats (useMemo) during its render
VersionPageRenders ==
  /\ stpc = "render"
  /\ stPage = "version"
  /\ IF \E i \in 1..Len(stIssues) : ThrowsOnVersionPage(stIssues[i])
       THEN stpc' = "threw" /\ UNCHANGED stStats
       ELSE stpc' = "rendered" /\ stStats' = StatsOf(stIssues, "version")
  /\ UNCHANGED <<stPage, stIssues>>
  /\ UNCHANGED notStatsVars

InitStats ==
  /\ IdleExcept("stats")
  /\ stPage \in {"project", "version"}
  /\ stIssues \in StatsPageIssueLists
  /\ stpc = "render"
  /\ stStats = NoStats

NextStats == ProjectPageRenders \/ VersionPageRenders

SpecStats == InitStats /\ [][NextStats]_vars

(***************************************************************************)
(* Properties of fetchWithRetry                                            *)
(***************************************************************************)
RECURSIVE Pow2(_)
Pow2(n) == IF n = 0 THEN 1 ELSE 2 * Pow2(n - 1)

\* attempt 1, wait d, attempt 2, wait 2d, ..., attempt k+1: k waits, each
\* strictly between two consecutive attempts, the i-th being d * 2^(i-1)
ExpectedLog(k, d) ==
  [i \in 1..(2 * k + 1) |->
     IF i % 2 = 1 THEN AttemptEvent((i + 1) \div 2)
                  ELSE WaitEvent(d * Pow2((i \div 2) - 1))]

FetchDone == fpc \in {"returned", "thrown"}

\* the first Len(outcomes)-1 attempts failed and the last one succeeded
FailedThenSucceeded ==
  /\ Len(outcomes) >= 1
  /\ Len(outcomes) <= argRetries + 1
  /\ Last(outcomes).kind = "ok"
  /\ \A i \in 1..(Len(outcomes) - 1) : outcomes[i].kind # "ok"

\* every one of the argRetries + 1 attempts failed
AllAttemptsFailed ==
  /\ Len(outcomes) = argRetries + 1
  /\ \A i \in 1..Len(outcomes) : outcomes[i].kind # "ok"

\* C1: if the first k attempts fail (k <= R) and attempt k+1 succeeds, the call
\* returns the response of attempt k+1 after exactly k+1 attempts and k waits,
\* the i-th wait being D*2^(i-1) and lying between attempts i and i+1; nothing
\* is attempted after the successful attempt.
C1_RetryThenSuccess ==
  /\ [](FailedThenSucceeded =>
          /\ fpc = "returned"
          /\ attempts = Len(outcomes)
          /\ result = [attempt |-> attempts, status |-> Last(outcomes).status]
          /\ log = ExpectedLog(attempts - 1, argDelay))
  /\ [](fpc = "returned" => FailedThenSucceeded)
  /\ [][fpc = "returned" =>
          /\ fpc' = "returned"
          /\ attempts' = attempts
          /\ log' = log
          /\ result' = result]_vars

\* two failures, then success, with the default arguments: waits of 1000 and 2000 ms
C1_Witness ==
  /\ fpc = "returned"
  /\ argRetries = DefaultRetries
  /\ argDelay = DefaultDelay
  /\ log = <<AttemptEvent(1), WaitEvent(1000), AttemptEvent(2), WaitEvent(2000),
             AttemptEvent(3)>>

\* C2: if every attempt fails, the call throws after exactly R+1 attempts, the
\* error thrown is the error of attempt R+1, and no attempt or wait follows.
C2_AllFailThrowsLast ==
  /\ [](AllAttemptsFailed =>
          /\ fpc = "thrown"
          /\ attempts = argRetries + 1
          /\ raised = Last(outcomes)
          /\ raised.attempt = argRetries + 1
          /\ log = ExpectedLog(argRetries, argDelay))
  /\ [](fpc = "thrown" => AllAttemptsFailed)
  /\ [][fpc = "thrown" =>
          /\ fpc' = "thrown"
          /\ attempts' = attempts
          /\ log' = log
          /\ backoff' = backoff
          /\ raised' = raised]_vars

\* four failed attempts with the default retries, the first and the last failing
\* differently
C2_Witness ==
  /\ fpc = "thrown"
  /\ argRetries = DefaultRetries
  /\ attempts = 4
  /\ outcomes[1].kind = "network"
  /\ raised = HttpError(4, 404)

\* C3: every invocation eventually completes under fair timers, after at most
\* R+1 attempts, whatever the upstream does.
C3_EventuallyCompletes ==
  /\ <>FetchDone
  /\ [](attempts <= argRetries + 1)

\* the copies of the helper that do not read the body of a failed response
\* always complete
FetchCompletesUnlessReadingErrorBody ==
  /\ (~readsErrorBody) => <>FetchDone
  /\ [](attempts <= argRetries + 1)

\* C4: a non-2xx response or a deadline abort is a failed attempt, which takes
\* one retry or, with none left, throws its error; what is returned is 2xx.
C4_OnlyOkReturned ==
  /\ [](fpc = "returned" => result.status >= 200 /\ result.status <= 299)
  /\ [](response # NoResponse /\ ~(response.status >= 200 /\ response.status <= 299)
          => fpc \in {"readingErrorBody", "waiting", "thrown"})
  /\ [][(Len(outcomes') = Len(outcomes) + 1 /\ Last(outcomes').kind # "ok") =>
          /\ Last(outcomes').kind = "http" =>
               ~(Last(outcomes').status >= 200 /\ Last(outcomes').status <= 299)
          /\ IF retries > 0
               THEN fpc' = "waiting" /\ raised' = NoError
               ELSE fpc' = "thrown" /\ raised' = Last(outcomes')]_vars
  /\ [][fpc = "waiting" /\ fpc' # "waiting" =>
          fpc' = "fetching" /\ retries' = retries - 1]_vars

\* a 404 and a deadline abort were both retried before a 2xx was returned
C4_Witness ==
  /\ fpc = "returned"
  /\ \E i, j \in 1..Len(outcomes) :
       /\ outcomes[i] = HttpError(i, 404)
       /\ outcomes[j] = AbortError(j)

\* C27: the timer of an attempt whose fetch rejected is not cleared and can
\* fire while a later attempt runs, but an attempt is aborted only by its own
\* timer, FetchTimeoutMs after that attempt started: an AbortError is caught
\* only in a step in which the timer of the running attempt has run down.
C27_AbortedByOwnDeadline ==
  [][(Len(outcomes') > Len(outcomes) /\ Last(outcomes').kind = "abort") =>
       /\ Last(outcomes').attempt = attempts
       /\ attempts \in DOMAIN timers
       /\ timers[attempts] = 0]_vars

\* the fetch of attempt 1 rejected, its timer fired during attempt 2, and
\* attempt 2 is still waiting for its answer, its own timer running
C27_Witness ==
  /\ fpc = "fetching"
  /\ attempts = 2
  /\ outcomes = <<NetworkError(1)>>
  /\ DOMAIN timers = {2}
  /\ timers[2] > 0

(***************************************************************************)
(* Properties of the grouping by status name                               *)
(***************************************************************************)
RECURSIVE SumOfCounts(_, _)
SumOfCounts(counts, keys) ==
  IF keys = {} THEN 0
  ELSE LET k == CHOOSE x \in keys : TRUE
       IN  counts[k].num + SumOfCounts(counts, keys \ {k})

\* C8: in every TaskCounts produced by the grouping, every count is a positive
\* integer and the counts sum to total, issues without a status name counting
\* as 'Unknown'.
C8_CountsSumToTotal ==
  (tpc = "done" /\ tResponse.status = 200) =>
    /\ \A k \in DOMAIN tResponse.counts :
         tResponse.counts[k].type = "number" /\ tResponse.counts[k].num >= 1
    /\ SumOfCounts(tResponse.counts, DOMAIN tResponse.counts) = tResponse.total

\* the grouping is sound for every issue list none of whose status names is the
\* name of a property of Object.prototype
GroupingSoundForPlainNames ==
  (tpc = "done" /\ tResponse.status = 200
   /\ \A i \in 1..Len(tResponse.issues) :
        OrUnknown(StatusNameOf(tResponse.issues[i])) \notin DOMAIN ObjectPrototype) =>
    /\ \A k \in DOMAIN tResponse.counts :
         tResponse.counts[k].type = "number" /\ tResponse.counts[k].num >= 1
    /\ SumOfCounts(tResponse.counts, DOMAIN tResponse.counts) = tResponse.total
    /\ \A i \in 1..Len(tResponse.issues) :
         OrUnknown(StatusNameOf(tResponse.issues[i])) \in DOMAIN tResponse.counts

(***************************************************************************)
(* Properties of the versions route                                        *)
(***************************************************************************)
\* the version list was fetched and the issue search failed after all retries
OnlySearchFailed ==
  /\ vList.settled = "returned" /\ vList.json
  /\ vSearch.settled = "threw"

\* the list as served when no issue could be counted
WithZeroCounts(versions) == [i \in 1..Len(versions) |-> WithIssueCounts(versions[i], Undefined)]

\* C7: when only the issue search fails, the versions route still answers with
\* the version list, every version with zero issue counts.
C7_SearchFailureAbsorbed ==
  OnlySearchFailed =>
    /\ vpc = "done"
    /\ vResponse.status = 200
    /\ vResponse.versions = WithZeroCounts(vList.data[1])

\* what the code does instead: any failed call of the Promise.all gives a 500
SearchFailureIs500 ==
  (vSearch.settled = "threw" \/ vList.settled = "threw") =>
    /\ vpc = "done"
    /\ vResponse.status = 500
    /\ vResponse.details \in ErrorMessages

(***************************************************************************)
(* Properties of getVersionBasedHealth                                     *)
(***************************************************************************)
HealthComputed == health # NoHealth

\* C9: getVersionBasedHealth returns a ProjectHealth for every input, and the
\* progress it returns lies in 0..100.
C9_ProgressBounded ==
  HealthComputed =>
    /\ health.status \in {"Healthy", "At Risk", "Critical"}
    /\ health.progress >= 0
    /\ health.progress <= 100

\* the part of C9 that the code does satisfy: a ProjectHealth is returned for
\* every input, with a progress that is a natural number
HealthTotal ==
  HealthComputed =>
    /\ health.status \in {"Healthy", "At Risk", "Critical"}
    /\ health.progress \in Nat

\* C10: the status is the first-match classification of the computed
\* (progress, blocked): Critical iff progress < 40 or blocked >= 5; otherwise
\* At Risk iff progress < 70 or blocked >= 2; otherwise Healthy. The table of
\* the specification and the four boundaries are instances.
C10_StatusClassification ==
  /\ HealthComputed =>
       LET critical == health.progress < 40 \/ health.blocked >= 5
           atRisk == health.progress < 70 \/ health.blocked >= 2
       IN  /\ health.status = "Critical" <=> critical
           /\ health.status = "At Risk" <=> (~critical /\ atRisk)
           /\ health.status = "Healthy" <=> (~critical /\ ~atRisk)
  /\ HealthStatus(80, 0) = "Healthy"
  /\ HealthStatus(50, 0) = "At Risk"
  /\ HealthStatus(80, 2) = "At Risk"
  /\ HealthStatus(30, 0) = "Critical"
  /\ HealthStatus(90, 5) = "Critical"
  /\ HealthStatus(40, 0) = "At Risk" /\ HealthStatus(39, 0) = "Critical"
  /\ HealthStatus(70, 0) = "Healthy" /\ HealthStatus(69, 0) = "At Risk"
  /\ HealthStatus(100, 2) = "At Risk" /\ HealthStatus(100, 1) = "Healthy"
  /\ HealthStatus(100, 5) = "Critical" /\ HealthStatus(100, 4) = "At Risk"

\* progress 80 with two blocked issues: At Risk
C10_Witness ==
  /\ health.progress = 80
  /\ health.blocked = 2
  /\ health.status = "At Risk"

\* the boundaries are reached by computed results
HealthBoundary40 == health.progress = 40 /\ health.blocked = 0 /\ health.status = "At Risk"
HealthBoundary70 == health.progress = 70 /\ health.blocked = 1 /\ health.status = "Healthy"
HealthBoundaryBlocked5 == health.progress = 80 /\ health.blocked = 5 /\ health.status = "Critical"

(***************************************************************************)
(* Properties of GET /api/projects                                         *)
(***************************************************************************)
\* the record of a project when both of its fetches succeed, from what the
\* upstream holds
FailureFreeLead(k) ==
  IF UpstreamLead(k) = Undefined THEN Some([displayName |-> "N/A"])
  ELSE IF UpstreamLead(k) = Some("") THEN Undefined
  ELSE Some([displayName |-> UpstreamLead(k)[1]])

FailureFreeRecord(project) ==
  [id |-> project.id, key |-> project.key, name |-> project.name,
   lead |-> FailureFreeLead(project.key),
   taskCounts |-> TaskCountsOf(UpstreamIssues(project.key))]

\* the handler has answered a request whose project list was fetched
ProjectsAnswered == ppc = "done" /\ pIndex >= 1

OneRecordPerProject ==
  /\ pResponse.status = 200
  /\ Len(pResponse.projects) = Len(pValues)
  /\ \A i \in 1..Len(pValues) : pResponse.projects[i].key = pValues[i].key

\* C6 as stated: once the project list was fetched the answer is a success
\* list with one record per upstream project in upstream order; a project
\* whose issue search failed has taskCounts {total:0, counts:{}} and every
\* other project has the record of the failure-free run.
C6_OthersFailureFree ==
  ProjectsAnswered =>
    /\ OneRecordPerProject
    /\ \A i \in 1..Len(pValues) :
         IF CallFailed(pSearchCalls[i])
           THEN pResponse.projects[i].taskCounts = [total |-> 0, counts |-> << >>]
           ELSE pResponse.projects[i] = FailureFreeRecord(pValues[i])

\* C6 amended: once the project list was fetched the answer is a success list
\* with one record per upstream project in upstream order; a failed issue
\* search leaves taskCounts {total:0, counts:{}}, a failed lead fetch leaves
\* lead {displayName:'N/A'}, and everything else of every record is what the
\* failure-free run gives.
C6_PerProjectIsolation ==
  ProjectsAnswered =>
    /\ OneRecordPerProject
    /\ \A i \in 1..Len(pValues) :
         pResponse.projects[i] =
           [FailureFreeRecord(pValues[i]) EXCEPT
              !.taskCounts = IF CallFailed(pSearchCalls[i])
                               THEN [total |-> 0, counts |-> << >>] ELSE @,
              !.lead = IF CallFailed(pLeadCalls[i])
                         THEN Some([displayName |-> "N/A"]) ELSE @]

\* two projects answered: the lead fetch of one failed, the issue search of
\* the other failed, and the first has issues and a named lead upstream
C6_Witness ==
  /\ ProjectsAnswered
  /\ Len(pValues) >= 2
  /\ pValues[1].key = "A"
  /\ CallFailed(pLeadCalls[1]) /\ ~CallFailed(pSearchCalls[1])
  /\ pResponse.projects[1].taskCounts.total = 3
  /\ ~CallFailed(pLeadCalls[2]) /\ CallFailed(pSearchCalls[2])

(***************************************************************************)
(* Properties of the dashboard aggregation                                 *)
(***************************************************************************)
\* every fetcher(u) of group g has settled and no run of the group is going on
GroupSettled(g) ==
  /\ dProjects # Undefined
  /\ Len(dCalls[g]) = Len(projectKeys) /\ Len(projectKeys) > 0
  /\ \A i \in 1..Len(dCalls[g]) : dCalls[g][i] # Undefined

Failed(g, i) == dCalls[g][i][1].failed
Fetched(g, i) == dCalls[g][i][1].value[1]

\* C5: whatever subset of the tasks, versions and users sub-fetches of a
\* project fails, a merged record of the project is produced; a failed tasks
\* fetch contributes {total:0, counts:{}}, a failed versions fetch [] (hence
\* latestVersion undefined), a failed users fetch [] (members 0), and what the
\* other sub-fetches returned is kept unchanged.
C5_FailedSubFetchesDefault ==
  (\A g \in DashGroups : GroupSettled(g)) =>
    /\ Len(enrichedProjects) = Len(projectKeys)
    /\ \A i \in 1..Len(projectKeys) :
         /\ enrichedProjects[i].key = projectKeys[i]
         /\ enrichedProjects[i].taskCounts =
              IF Failed("tasks", i) THEN [total |-> 0, counts |-> << >>]
              ELSE Fetched("tasks", i)
         /\ VersionsAt(i) = IF Failed("versions", i) THEN << >> ELSE Fetched("versions", i)
         /\ Failed("versions", i) => enrichedProjects[i].latestVersion = Undefined
         /\ ~Failed("versions", i) =>
              \/ enrichedProjects[i].latestVersion = Undefined
              \/ \E n \in 1..Len(Fetched("versions", i)) :
                   enrichedProjects[i].latestVersion = Some(Fetched("versions", i)[n])
         /\ enrichedProjects[i].members =
              IF Failed("users", i) THEN 0 ELSE Len(Fetched("users", i))

\* the versions fetch of the first project failed while its tasks fetch
\* returned counts, and for the second project it is the other way round
C5_Witness ==
  /\ \A g \in DashGroups : GroupSettled(g)
  /\ Len(projectKeys) = 2
  /\ Failed("versions", 1) /\ ~Failed("tasks", 1) /\ ~Failed("users", 1)
  /\ enrichedProjects[1].taskCounts.total > 0
  /\ enrichedProjects[1].latestVersion = Undefined
  /\ Failed("tasks", 2) /\ ~Failed("versions", 2) /\ Failed("users", 2)
  /\ enrichedProjects[2].latestVersion # Undefined
  /\ enrichedProjects[2].members = 0

\* what the sub-fetches issued for project k can contribute to its record:
\* a result of /api/projects/k/..., or the default of the group
OwnResults(g, k) == DashResults(g, k) \cup {GroupDefault(g)}

\* C23: in every render, also after the project list was refreshed with
\* projects added, removed or reordered and whatever the order in which the
\* sub-fetches complete, the taskCounts, the latestVersion and the members of
\* the record of project K come from the sub-fetches issued for K (or are the
\* defaults), never from those of another project.
C23_AttributedByKey ==
  \A i \in 1..Len(enrichedProjects) :
    LET k == enrichedProjects[i].key
    IN  /\ k = projectKeys[i]
        /\ enrichedProjects[i].taskCounts \in OwnResults("tasks", k)
        /\ \E versions \in OwnResults("versions", k) :
             enrichedProjects[i].latestVersion = LatestVersionOf(versions)
        /\ \E users \in OwnResults("users", k) :
             enrichedProjects[i].members = Len(users)

\* the list [A, B] came back as [B, A]; the run of the old key finished after
\* the run of the new key started, and both records show their own results
C23_Witness ==
  /\ dRefreshes = 1
  /\ projectKeys = <<"B", "A">>
  /\ dCache["tasks"][<<"A", "B">>] # Undefined
  /\ dCache["tasks"][<<"A", "B">>] # dCache["tasks"][<<"B", "A">>]
  /\ \A g \in DashGroups : dData[g] # Undefined
  /\ enrichedProjects[1].taskCounts.total = 2
  /\ enrichedProjects[1].latestVersion # Undefined
  /\ enrichedProjects[1].members = 1
  /\ enrichedProjects[2].taskCounts.total = 3
  /\ enrichedProjects[2].members = 2

\* the hook of a group returns what the cache holds for the key of the render
DataIsOfCurrentKey ==
  \A g \in DashGroups : dData[g] = HookData(dCache[g], projectKeys, dData[g])

\* a sub-fetch of project i in group g is outstanding: the group has no
\* result yet, or a run of the group waits for the fetch of that project
Outstanding(g, i) ==
  \/ dData[g] = Undefined
  \/ dFlight[g] # Undefined /\ dFlight[g][1][i] = "pending"

\* C24: the page computes and shows a merged record of a project (taskCounts,
\* latestVersion, members, health) only when none of the tasks, versions and
\* users sub-fetches of that project is outstanding; no health is derived from
\* a default that stands for a result not yet received.
C24_MergedAfterAllSettled ==
  \A i \in 1..Len(enrichedProjects) : \A g \in DashGroups : ~Outstanding(g, i)

\* what the page does: the record of a project is there as soon as the project
\* list is, with the defaults in the place of the results not yet received
MergedFromDefaults ==
  \A i \in 1..Len(enrichedProjects) :
    /\ dData["tasks"] = Undefined =>
         /\ enrichedProjects[i].taskCounts = GroupDefault("tasks")
         /\ enrichedProjects[i].health.status = "Critical"
    /\ dData["versions"] = Undefined => enrichedProjects[i].latestVersion = Undefined
    /\ dData["users"] = Undefined => enrichedProjects[i].members = 0

\* C25: the result of a group is either absent for all projects or present
\* for all of them, each entry being what the fetch for that project returned
\* or the default of the group; it is never present for some projects while
\* the fetches of others are pending.
C25_NoPartialResults ==
  \A g \in DashGroups :
    \/ dData[g] = Undefined
    \/ /\ Len(dData[g][1]) = Len(projectKeys)
       /\ \A i \in 1..Len(projectKeys) : dData[g][1][i] \in OwnResults(g, projectKeys[i])

\* the tasks fetch of the first of two projects has returned and that of the
\* second is pending: the tasks group has no result; the users group has its
\* result, with the default for the project whose fetch failed
C25_Witness ==
  /\ Len(projectKeys) = 2
  /\ dFlight["tasks"] = Some(<<"settled", "pending">>)
  /\ ~dCalls["tasks"][1][1].failed
  /\ dData["tasks"] = Undefined
  /\ dData["users"] # Undefined
  /\ Len(dCalls["users"]) = 2
  /\ dCalls["users"][1] = Some(DashThrew)
  /\ dData["users"][1][1] = << >>
  /\ Len(dData["users"][1][2]) > 0

(***************************************************************************)
(* Properties of the status buckets and of the progress of                 *)
(* getVersionBasedHealth                                                   *)
(***************************************************************************)
\* a status name with its capitalisation ignored
FoldCase(name) ==
  CASE name \in {"Blocked", "blocked", "BLOCKED"} -> "blocked"
    [] name \in {"Done", "done", "DONE"} -> "done"
    [] name \in {"Fixed", "fixed", "FIXED"} -> "fixed"
    [] OTHER -> "to do"

\* the number of issues whose status name is one of names, ignoring case
IssuesNamed(counts, names) ==
  SumOver(counts, { k \in DOMAIN counts : FoldCase(k) \in names })

\* C11: the bucket lookups ignore case: blocked is the number of issues whose
\* status name is "blocked" in any capitalisation, versionFixed the number of
\* issues whose status name is "done" or "fixed" in any capitalisation, also
\* when two capitalisations of a name are both present.
C11_BucketsIgnoreCase ==
  HealthComputed =>
    /\ health.blocked = IssuesNamed(hTaskCounts.counts, {"blocked"})
    /\ health.versionFixed = IssuesNamed(hTaskCounts.counts, {"done", "fixed"})

\* what the lookups do give: the first of the two spellings the code names
\* that is present, for each of Blocked, Done and Fixed
BucketsFirstSpelling ==
  HealthComputed =>
    LET counts == hTaskCounts.counts
        First(a, b) == IF a \in DOMAIN counts THEN counts[a]
                       ELSE IF b \in DOMAIN counts THEN counts[b] ELSE 0
    IN  /\ health.blocked = First("Blocked", "blocked")
        /\ health.versionFixed = First("Done", "done") + First("Fixed", "fixed")

\* the latest version gives no count of issues: it is undefined, has no
\* issueCounts, or has an issuesFixedCount that is missing or 0
NoVersionTotal ==
  \/ hLatestVersion = Undefined
  \/ hLatestVersion[1].issueCounts = Undefined
  \/ hLatestVersion[1].issueCounts[1].issuesFixedCount \in {Undefined, Some(0)}

\* C12: whenever versionTotal is 0 (latestVersion undefined, its issueCounts
\* missing, or its issuesFixedCount 0) progress is 0 whatever versionFixed and
\* the counts are, and the result is a natural number: nothing is divided by 0.
C12_ZeroTotalZeroProgress ==
  (HealthComputed /\ NoVersionTotal) =>
    /\ health.versionTotal = 0
    /\ health.progress = 0
    /\ health.versionFixed \in Nat

\* no version total although issues of the project are done
C12_Witness ==
  /\ HealthComputed
  /\ hLatestVersion # Undefined
  /\ hLatestVersion[1].issueCounts # Undefined
  /\ hLatestVersion[1].issueCounts[1].issuesFixedCount = Some(0)
  /\ health.versionFixed > 0
  /\ health.progress = 0

\* the other two ways to have no version total
C12_UndefinedVersion == HealthComputed /\ hLatestVersion = Undefined /\ health.versionFixed > 0
C12_MissingIssueCounts ==
  /\ HealthComputed /\ hLatestVersion # Undefined
  /\ hLatestVersion[1].issueCounts = Undefined /\ health.versionFixed > 0

(***************************************************************************)
(* Properties of the latest-version resolution                             *)
(***************************************************************************)
IsArchived(v) == v.status = Some("Archived")

\* C13: the resolution never returns an Archived version; it returns undefined
\* exactly when the list has no non-archived version (the empty list
\* included), and otherwise an element of the list.
C13_LatestNeverArchived ==
  lResolved =>
    /\ lLatest = Undefined <=> \A n \in 1..Len(lVersions) : IsArchived(lVersions[n])
    /\ lLatest # Undefined =>
         /\ ~IsArchived(lLatest[1])
         /\ \E n \in 1..Len(lVersions) : lVersions[n] = lLatest[1]

\* an archived version with the greatest date stands last in the list, behind
\* a version that is not archived
C13_Witness ==
  /\ lResolved
  /\ Len(lVersions) = 2
  /\ ~IsArchived(lVersions[1])
  /\ IsArchived(lVersions[2]) /\ DateOf(lVersions[2]) = Some("2024-06-01")
  /\ lLatest = Some(lVersions[1])

\* the empty list resolves to undefined
C13_EmptyList == lResolved /\ lVersions = << >> /\ lLatest = Undefined

\* the names in the order of their UTF-16 code units ("B" is before "a")
CodeUnitOrder == <<"Beta", "alpha", "v0", "v1", "v2", "v3">>

CodeUnitRank(name) == CHOOSE i \in 1..Len(CodeUnitOrder) : CodeUnitOrder[i] = name

\* the precondition of C14: no version is archived and the sort keys (the date
\* key of a dated version, the name of an undated one) are pairwise distinct
DistinctSortKeys ==
  /\ Len(lVersions) > 0
  /\ \A n \in 1..Len(lVersions) : ~IsArchived(lVersions[n])
  /\ \A i, j \in 1..Len(lVersions) :
       i # j =>
         /\ (DateOf(lVersions[i]) # Undefined /\ DateOf(lVersions[j]) # Undefined)
              => DateOf(lVersions[i]) # DateOf(lVersions[j])
         /\ (DateOf(lVersions[i]) = Undefined /\ DateOf(lVersions[j]) = Undefined)
              => lVersions[i].name # lVersions[j].name

DateRank(d) == CHOOSE i \in 1..Len(DateStrings) : DateStrings[i] = d

\* v is the maximum of the list: no version is dated later; when v is undated
\* no version is dated and, by the rank of the names, none is named later
IsMaximum(v, rank(_)) ==
  \A n \in 1..Len(lVersions) :
    LET w == lVersions[n]
    IN  IF DateOf(v) # Undefined
          THEN DateOf(w) # Undefined => DateRank(DateOf(w)[1]) <= DateRank(DateOf(v)[1])
          ELSE DateOf(w) = Undefined /\ rank(w.name) <= rank(v.name)

\* C14 as stated: for non-archived versions with pairwise distinct sort keys
\* the latest version is the dated version with the greatest date key
\* (releaseDate, else startDate) if any version is dated, and otherwise the
\* version with the lexicographically greatest name, whatever the order of
\* the list.
C14_LatestIsMaximum ==
  (lResolved /\ DistinctSortKeys) =>
    /\ lLatest # Undefined
    /\ IsMaximum(lLatest[1], CodeUnitRank)

\* C14 amended: as C14, with the undated versions compared by the collation
\* order of localeCompare (letters before case: "alpha" is before "Beta")
\* where C14 has the lexicographic order.
C14_LatestIsCollationMaximum ==
  (lResolved /\ DistinctSortKeys) =>
    /\ lLatest # Undefined
    /\ IsMaximum(lLatest[1], NameRank)

\* an undated version, then the version with the latest date key, then a
\* version dated earlier: the latest is the one in the middle
C14_Witness ==
  /\ lResolved /\ DistinctSortKeys
  /\ Len(lVersions) = 3
  /\ DateOf(lVersions[1]) = Undefined
  /\ DateOf(lVersions[2]) = Some("2024-06-01")
  /\ lVersions[3].releaseDate = Some("2024-01-01")
  /\ lVersions[3].startDate = Some("2024-03-01")
  /\ lLatest = Some(lVersions[2])

\* undated versions only, with the name latest in collation order first
C14_UndatedByName ==
  /\ lResolved /\ DistinctSortKeys
  /\ Len(lVersions) = 2
  /\ \A n \in 1..2 : DateOf(lVersions[n]) = Undefined
  /\ lVersions[1].name = "v1" /\ lVersions[2].name = "Beta"
  /\ lLatest = Some(lVersions[1])

(***************************************************************************)
(* Properties of the served versions                                       *)
(***************************************************************************)
VersionsServed == vpc = "done" /\ vResponse.status = 200

\* C15: every version the versions route serves carries a status in
\* {Released, Archived, Unreleased} derived from the upstream flags, Archived
\* whenever the upstream marks the version archived, so that the page never
\* resolves an archived version as the latest one.
C15_StatusDerived ==
  VersionsServed =>
    /\ \A i \in 1..Len(vResponse.versions) :
         LET v == vResponse.versions[i]
         IN  /\ "status" \in DOMAIN v
             /\ v.status \in {"Released", "Archived", "Unreleased"}
             /\ v.archived => v.status = "Archived"
    /\ LET latest == LatestVersionOf(PageVersions(vResponse.versions))
       IN  latest # Undefined =>
             \A i \in 1..Len(vResponse.versions) :
               vResponse.versions[i].id = latest[1].id => ~vResponse.versions[i].archived

\* what the route does serve: the upstream record with its archived and
\* released flags and without a status, so that the page filters nothing
ServedVersionsKeepFlags ==
  VersionsServed =>
    /\ \A i \in 1..Len(vResponse.versions) :
         /\ "status" \notin DOMAIN vResponse.versions[i]
         /\ vResponse.versions[i].archived = vList.data[1][i].archived
    /\ NotArchived(PageVersions(vResponse.versions)) = PageVersions(vResponse.versions)

(***************************************************************************)
(* Properties of the issue route                                           *)
(***************************************************************************)
\* the issue key the handler works with; undefined when it cannot be decoded
DecodedKey == DecodeURIComponent(iIssueKey)

IsWhitespace(ch) == ch \in {" ", "\t", "\n"}

HasWhitespace(s) == \E i \in 1..Len(s) : IsWhitespace(s[i])

\* C16: an issue key with embedded whitespace is answered with 400 before any
\* upstream request: no request is ever handed to fetchWithRetry, whether the
\* credentials are configured or not.
C16_WhitespaceKeyRejected ==
  (DecodedKey # Undefined /\ HasWhitespace(DecodedKey[1])) =>
    /\ iRequests = << >>
    /\ ipc # "start" => (ipc = "done" /\ iResponse.status = 400)

\* what the validation does reject: a key with a space character
SpaceKeyRejected ==
  (DecodedKey # Undefined /\ Includes(DecodedKey[1], " ")) =>
    /\ iRequests = << >>
    /\ ipc # "start" => (ipc = "done" /\ iResponse.status = 400)

\* a key with a tab goes upstream when the credentials are configured
TabKeySent ==
  /\ DecodedKey = Some(<<"A", "\t", "1">>)
  /\ Len(iRequests) = 1 /\ iRequests[1].key = <<"A", "\t", "1">>

\* the issue key is malformed: it cannot be decoded or has whitespace in it
MalformedIssueKey == DecodedKey = Undefined \/ HasWhitespace(DecodedKey[1])

\* the handler is over: it returned a response or threw
IssueOver == ipc \in {"done", "threw"}

UpstreamSaid404(o) == o.settled = "threw" /\ o.message = "Jira API Error: 404 Not Found"

\* C19: the issue route answers 400 exactly when the issue key is malformed;
\* when the main fetch fails after all retries, 404 exactly when the final
\* upstream status is 404 and 500 otherwise (deadline aborts included); 500
\* when the configuration is missing; every error response has status >= 400
\* and a body with a string field error.
C19_FailureStatuses ==
  IssueOver =>
    /\ ipc = "done"
    /\ iResponse.status = 400 <=> MalformedIssueKey
    /\ iMain.settled = "threw" =>
         /\ iResponse.status \in {404, 500}
         /\ iResponse.status = 404 <=> UpstreamSaid404(iMain)
    /\ (~MalformedIssueKey /\ ~iConfigured) => iResponse.status = 500
    /\ iResponse.status # 200 =>
         /\ iResponse.status >= 400
         /\ iResponse.error \in {"Invalid issue key", "Issue not found",
                                 "Failed to fetch issue details"}

\* the part of C19 that the handler does satisfy: whenever it returns a
\* response, a failed main fetch and a missing configuration are mapped as
\* stated, and a key with a space gets 400
IssueErrorsMapped ==
  ipc = "done" =>
    /\ iResponse.status = 400 <=> Includes(DecodedKey[1], " ")
    /\ iMain.settled = "threw" =>
         (iResponse.status = IF UpstreamSaid404(iMain) THEN 404 ELSE 500)
    /\ (~Includes(DecodedKey[1], " ") /\ ~iConfigured) => iResponse.status = 500
    /\ iResponse.status # 200 =>
         iResponse.error \in {"Invalid issue key", "Issue not found",
                              "Failed to fetch issue details"}

\* a key that cannot be decoded: the handler throws and returns no response
UndecodableKeyThrows == DecodedKey = Undefined /\ ipc = "threw" /\ iResponse = NoHttpResponse

\* a body that is not JSON, with 404 in the message of the parse error, is
\* answered as a missing issue
JsonErrorAnswered404 == ipc = "done" /\ iMain.settled = "returned" /\ iResponse.status = 404

(***************************************************************************)
(* Properties of the project key in the filter expressions                 *)
(***************************************************************************)
\* the project keys with a character that the query grammar of the upstream
\* does not allow in a key: whitespace, a double quote
IllegalProjectKeys == {"C B", "C\"B"}

\* C17: an endpoint that builds a filter expression from a project key answers
\* a key with an illegal character (whitespace, a double quote) with a
\* validation error before any upstream request; no search request embedding
\* such a key is ever sent.
C17_IllegalKeyRejected ==
  /\ tProjectKey \in IllegalProjectKeys =>
       /\ tRequests = << >>
       /\ tpc = "done" => tResponse.status = 400
  /\ vProjectKey \in IllegalProjectKeys =>
       /\ vRequests = << >>
       /\ vpc = "done" => vResponse.status = 400

\* what the tasks route does with such a key: the key goes into the filter
\* expression as it is
IllegalKeySent ==
  /\ tProjectKey = "C\"B"
  /\ Len(tRequests) = 1
  /\ tRequests[1].jql = "project=\"C\"B\""

(***************************************************************************)
(* Properties of the version detail route                                  *)
(***************************************************************************)
\* the upstream does not have the version: the last attempt got a 404
VersionMissingUpstream ==
  vdDetails.settled = "threw" /\ vdDetails.message = "Jira API Error: 404 Not Found"

\* C20: the version detail route surfaces an upstream failure with a status
\* chosen from the upstream status: 404 when the version does not exist
\* upstream (the final upstream status is 404), 500 for any other upstream or
\* transport failure.
C20_MissingVersionIs404 ==
  (vdpc = "done" /\ (Rejected(vdDetails) \/ Rejected(vdIssues))) =>
    vdResponse.status = IF VersionMissingUpstream THEN 404 ELSE 500

\* what the route does answer: 500 for every failure, the missing version
\* included
DetailFailureIs500 ==
  (vdpc = "done" /\ (Rejected(vdDetails) \/ Rejected(vdIssues))) =>
    /\ vdResponse.status = 500
    /\ vdResponse.error = "Failed to fetch data from Jira"

\* the version is missing upstream and the route has answered
MissingVersionAnswered == vdpc = "done" /\ VersionMissingUpstream

(***************************************************************************)
(* Properties of the search requests                                       *)
(***************************************************************************)
IsSearch(r) == r.url \in {"/rest/api/3/search/jql", "/rest/api/3/search"}

\* a search request with a field projection list and a maxResults cap
Bounded(r) == r.fields # << >> /\ r.maxResults # Undefined

AllBounded(requests) ==
  \A n \in 1..Len(requests) : IsSearch(requests[n]) => Bounded(requests[n])

\* C18: every issue-search request that an endpoint sends to the upstream
\* carries a field projection list and a maxResults cap.
C18_SearchesBounded ==
  /\ AllBounded(tRequests)
  /\ AllBounded(pRequests)
  /\ AllBounded(vRequests)
  /\ AllBounded(vdRequests)
  /\ AllBounded(iRequests)

\* the searches of the tasks, projects and versions routes are bounded, with
\* the cap 1000
AggregationSearchesBounded ==
  \A requests \in {tRequests, pRequests, vRequests} :
    \A n \in 1..Len(requests) :
      IsSearch(requests[n]) => (Bounded(requests[n]) /\ requests[n].maxResults = Some(1000))

\* the search for the issues of a version has been sent without a cap
UncappedVersionSearch ==
  \E n \in 1..Len(vdRequests) :
    IsSearch(vdRequests[n]) /\ vdRequests[n].fields # << >> /\ vdRequests[n].maxResults = Undefined

\* the search for the children of an epic has been sent without a cap
UncappedEpicSearch ==
  \E n \in 1..Len(iRequests) : IsSearch(iRequests[n]) /\ iRequests[n].maxResults = Undefined

(***************************************************************************)
(* Properties of the API as a whole                                        *)
(***************************************************************************)
\* the handler that runs
ApiRoute ==
  IF ppc # "idle" THEN "projects"
  ELSE IF tpc # "idle" THEN "tasks"
  ELSE IF vpc # "idle" THEN "versions"
  ELSE IF ipc # "idle" THEN "issue"
  ELSE IF aipc # "idle" THEN "allIssues"
  ELSE IF vdpc # "idle" THEN "detail"
  ELSE "passThrough"

\* the base URL, the API user or the API token is missing
EnvironmentMissing ==
  CASE ApiRoute = "projects" -> ~pConfigured
    [] ApiRoute = "tasks" -> ~tConfigured
    [] ApiRoute = "versions" -> ~vConfigured
    [] ApiRoute = "issue" -> ~iConfigured
    [] ApiRoute = "allIssues" -> ~aiBaseUrl \/ ~aiApiUser \/ ~aiApiToken
    [] ApiRoute = "detail" -> ~vdConfigured
    [] OTHER -> ~ptConfigured

\* the number of requests handed to fetchWithRetry
UpstreamRequests ==
  Len(pRequests) + Len(tRequests) + Len(vRequests) + Len(iRequests)
    + Len(aiRequests) + Len(vdRequests) + Len(ptRequests)

\* where the handler is
ApiPc ==
  CASE ApiRoute = "projects" -> ppc
    [] ApiRoute = "tasks" -> tpc
    [] ApiRoute = "versions" -> vpc
    [] ApiRoute = "issue" -> ipc
    [] ApiRoute = "allIssues" -> aipc
    [] ApiRoute = "detail" -> vdpc
    [] OTHER -> ptpc

\* the status of the response, 0 before the response
ApiStatus ==
  CASE ApiRoute = "projects" -> pResponse.status
    [] ApiRoute = "tasks" -> tResponse.status
    [] ApiRoute = "versions" -> vResponse.status
    [] ApiRoute = "issue" -> iResponse.status
    [] ApiRoute = "allIssues" -> aiResponse.status
    [] ApiRoute = "detail" -> vdResponse.status
    [] OTHER -> ptResponse.status

\* the response has an `error` member
ApiErrorBody ==
  CASE ApiRoute = "projects" -> "error" \in DOMAIN pResponse
    [] ApiRoute = "tasks" -> "error" \in DOMAIN tResponse
    [] ApiRoute = "versions" -> "error" \in DOMAIN vResponse
    [] ApiRoute = "issue" -> "error" \in DOMAIN iResponse
    [] ApiRoute = "allIssues" -> "error" \in DOMAIN aiResponse
    [] ApiRoute = "detail" -> "error" \in DOMAIN vdResponse
    [] OTHER -> "error" \in DOMAIN ptResponse

\* the handler is over: it returned a response or it threw
ApiOver == ApiPc \in {"done", "threw"}

\* the path parameters that a handler turns down before it reads the environment
ParametersRejected ==
  CASE ApiRoute = "issue" -> DecodedKey = Undefined \/ Includes(DecodedKey[1], " ")
    [] ApiRoute = "detail" -> vdProjectKey = "" \/ vdVersionId = ""
    [] ApiRoute = "passThrough" -> ptRoute = "users" /\ ptProjectKey = ""
    [] OTHER -> FALSE

\* C21: when the base URL, the API user or the API token is missing, every
\* endpoint answers 500 with an error body and hands no request to
\* fetchWithRetry (no first attempt, hence no retry and no backoff wait).
C21_MissingEnvironmentIs500 ==
  EnvironmentMissing =>
    /\ UpstreamRequests = 0
    /\ ApiOver => (ApiPc = "done" /\ ApiStatus = 500 /\ ApiErrorBody)

\* C21, as the handlers do it: with a missing variable no request goes
\* upstream, and the answer is 500 with an error body unless the handler turned
\* the path parameters down first (400, or the URIError of an issue key that
\* cannot be decoded).
C21_MissingEnvironmentAfterParameters ==
  EnvironmentMissing =>
    /\ UpstreamRequests = 0
    /\ ApiOver =>
         IF ParametersRejected
           THEN ApiPc = "threw" \/ (ApiStatus = 400 /\ ApiErrorBody)
           ELSE ApiPc = "done" /\ ApiStatus = 500 /\ ApiErrorBody

\* the all-issues route, with only the token missing, has answered 500
C21_Witness ==
  /\ aipc = "done"
  /\ aiBaseUrl /\ aiApiUser /\ ~aiApiToken
  /\ aiResponse = AllIssuesError("Jira environment variables not set")
  /\ aiRequests = << >>

\* an issue key with a space is answered 400 although the environment is missing
C21_InvalidKeyFirst ==
  /\ ipc = "done"
  /\ ~iConfigured
  /\ iResponse.status = 400

\* C22: every invocation of every GET handler ends with an HTTP response, a
\* success or an error body with a status of 400 or more; no exception leaves
\* the handler.
C22_EveryInvocationAnswered ==
  ApiOver =>
    /\ ApiPc = "done"
    /\ ApiStatus = 200 \/ (ApiStatus >= 400 /\ ApiErrorBody)

\* what holds instead: every handler but the issue route always answers, and
\* the issue route answers whenever the key can be decoded
AnsweredUnlessUndecodable ==
  ApiOver =>
    IF ApiRoute = "issue" /\ DecodedKey = Undefined
      THEN ApiPc = "threw" /\ ApiStatus = 0
      ELSE /\ ApiPc = "done"
           /\ ApiStatus = 200 \/ (ApiStatus >= 400 /\ ApiErrorBody)

(***************************************************************************)
(* Properties of concurrent invocations                                    *)
(***************************************************************************)
\* the response of a request that is served alone
ServedAlone(route, keys) ==
  CASE route = "tasks" -> TasksOk(UpstreamIssues(keys[1]))
    [] route = "versions" ->
         [status |-> 200,
          versions |-> FinalVersions(UpstreamVersions(keys[1]), UpstreamStatsIssues(keys[1]))]
    [] OTHER ->
         [status |-> 200,
          projects |-> [i \in 1..Len(keys) |->
                          ProjectRecord(UpstreamProject(keys[i]),
                                        Coalesce(UpstreamLead(keys[i]), Some("N/A"))[1],
                                        TaskCountsOf(UpstreamIssues(keys[i])))]]

\* C26: whatever the interleaving of the invocations at their await points,
\* the response of each invocation is the one it would give if it ran alone
\* against the same upstream responses.
C26_InvocationsIndependent ==
  \A n \in Invocations :
    cpc[n] = "done" => cResponse[n] = ServedAlone(cRoute[n], cKeys[n])

\* two invocations of the projects route for the same list of two projects
\* were served at the same time, and both have answered
C26_Witness ==
  /\ \A n \in {1, 2} : cRoute[n] = "projects" /\ cKeys[n] = <<"A", "C">> /\ cpc[n] = "done"
  /\ cResponse[1] = cResponse[2]
  /\ Len(cResponse[1].projects) = 2

(***************************************************************************)
(* Properties of the issue counts of the versions route                    *)
(***************************************************************************)
\* the issues of the search and the versions of the list, once both arrived
SearchedIssues == IssuesOrEmpty(vSearch.data)
ListedVersions == vList.data[1]

FixVersionsOf(issue) ==
  IF issue.fields[1].fixVersions = Undefined THEN << >> ELSE issue.fields[1].fixVersions[1]

\* the (issue, fixVersions entry) pairs that name the version id
PairsNaming(id) ==
  { p \in (1..Len(SearchedIssues)) \X (1..MaxVersions) :
      /\ p[2] <= Len(FixVersionsOf(SearchedIssues[p[1]]))
      /\ FixVersionsOf(SearchedIssues[p[1]])[p[2]].id = id }

\* the status of the issue is "done" or "fixed", ignoring case
IsCompleted(issue) ==
  /\ issue.fields[1].status # Undefined
  /\ issue.fields[1].status[1].name # Undefined
  /\ FoldCase(issue.fields[1].status[1].name[1]) \in {"done", "fixed"}

\* C28: for every version v the versions route returns, totalIssues is the
\* number of (issue, fixVersions entry) pairs that name v, issuesFixedCount the
\* number of those whose issue is "done" or "fixed" ignoring case (hence
\* 0 <= issuesFixedCount <= totalIssues, 0/0 for a version no issue names, and
\* nothing from an issue without fixVersions), and the other fields of v are
\* those of the list.
C28_IssueCountsPerVersion ==
  (vpc = "done" /\ vResponse.status = 200) =>
    /\ Len(vResponse.versions) = Len(ListedVersions)
    /\ \A i \in 1..Len(ListedVersions) :
         LET v == vResponse.versions[i]
             total == Cardinality(PairsNaming(v.id))
             fixed == Cardinality({ p \in PairsNaming(v.id) : IsCompleted(SearchedIssues[p[1]]) })
         IN  /\ v.issueCounts[1].totalIssues = Some(total)
             /\ v.issueCounts[1].issuesFixedCount = Some(fixed)
             /\ 0 <= fixed /\ fixed <= total
             /\ [v EXCEPT !.issueCounts = Undefined] = ListedVersions[i]

\* a "FIXED" issue listed in versions 1 and 2 and a "To Do" issue of version 1:
\* version 1 has 1 of 2, version 2 has 1 of 1
C28_Witness ==
  /\ vpc = "done" /\ vResponse.status = 200
  /\ Len(vResponse.versions) = 2
  /\ \E j \in 1..Len(SearchedIssues) : Len(FixVersionsOf(SearchedIssues[j])) = 2
  /\ vResponse.versions[1].issueCounts[1] = [issuesFixedCount |-> Some(1), totalIssues |-> Some(2)]
  /\ vResponse.versions[2].issueCounts[1] = [issuesFixedCount |-> Some(1), totalIssues |-> Some(1)]

(***************************************************************************)
(* Properties of the progress of a card computed from one snapshot         *)
(***************************************************************************)
\* the issue lists no version twice
ListsVersionsOnce(issue) ==
  \A i, j \in 1..Len(FixVersionsOf(issue)) :
    FixVersionsOf(issue)[i].id = FixVersionsOf(issue)[j].id => i = j

\* a completed issue has the status "Done" or "Fixed", spelled so
SpelledExactly(issue) ==
  IsDoneStatus(LowerStatusOf(issue)) => StatusNameOf(issue) \in {Some("Done"), Some("Fixed")}

\* the card was rendered with the data of both routes, both computed from the
\* same issues, which meet the two conditions above
RenderedFromOneSnapshot ==
  /\ sRender # Undefined
  /\ sRender[1].tasksLoaded
  /\ sRender[1].versionsLoaded
  /\ sTasksSaw = sVersionsSaw
  /\ \A i \in 1..Len(sTasksSaw[1]) :
       ListsVersionsOnce(sTasksSaw[1][i]) /\ SpelledExactly(sTasksSaw[1][i])

\* C29: when the tasks data and the versions data of a card were computed
\* from the same issues (every issue listing a version at most once, every
\* completed issue spelled "Done" or "Fixed"), versionFixed is at least
\* versionTotal, and the progress is 0 or at least 100, never strictly between.
C29_ProgressZeroOrComplete ==
  RenderedFromOneSnapshot =>
    /\ sRender[1].health.versionFixed >= sRender[1].health.versionTotal
    /\ sRender[1].health.progress = 0 \/ sRender[1].health.progress >= 100

\* a card of one snapshot whose latest version has a completed issue while
\* the project has more completed issues: the progress is above 100
C29_Witness ==
  /\ RenderedFromOneSnapshot
  /\ sRender[1].health.versionTotal > 0
  /\ sRender[1].health.progress > 100

\* the tasks data and the versions data of different moments give a progress
\* strictly between 0 and 100
ProgressOfTwoSnapshots ==
  /\ sRender # Undefined
  /\ sTasksSaw # sVersionsSaw
  /\ sRender[1].health.progress > 0
  /\ sRender[1].health.progress < 100

(***************************************************************************)
(* Properties of the progress statistics of the detail pages               *)
(***************************************************************************)
BucketSum == stStats.todo + stStats.inProgress + stStats.blocked + stStats.done

\* C30: on both detail pages, for every issue list (issues whose status is
\* missing included), the render computes stats whose four buckets add up to
\* total, the length of the list, and whose progress is the rounded share of
\* done in total.
C30_BucketsPartition ==
  stpc \in {"rendered", "threw"} =>
    /\ stpc = "rendered"
    /\ stStats.total = Len(stIssues)
    /\ BucketSum = stStats.total
    /\ stStats.progress = IF stStats.total > 0 THEN RoundPercent(stStats.done, stStats.total) ELSE 0

\* every issue of the list has a status with a name
AllStatusesNamed ==
  \A i \in 1..Len(stIssues) : ~ThrowsOnVersionPage(stIssues[i])

\* for the lists whose issues all have a named status the buckets partition
\* the list on both pages
PartitionWhenStatusesNamed ==
  (stpc \in {"rendered", "threw"} /\ AllStatusesNamed) =>
    /\ stpc = "rendered"
    /\ BucketSum = stStats.total
    /\ stStats.total = Len(stIssues)

\* on the project page an issue without status is in total and in no bucket:
\* the buckets fall short of total by the number of such issues
ProjectPageSkipsMissingStatus ==
  (stpc = "rendered" /\ stPage = "project") =>
    stStats.total - BucketSum =
      Cardinality({ i \in 1..Len(stIssues) : SkippedByProjectPage(stIssues[i]) })

\* the version page renders only the lists whose issues all have a named status
VersionPageThrowsOnMissingStatus ==
  stPage = "version" => (stpc = "threw" <=> ~AllStatusesNamed) \/ stpc = "render"

=============================================================================
